---- MODULE Spec2Model ----
(***************************************************************************)
(* Execution engine of the ML orchestrator: the priority scheduler         *)
(* (workflow_engine/scheduler.py), the retry tracker and its delay queue   *)
(* (workflow_engine/retry_tracker.py, state.py), the per-agent worker pool *)
(* (workflow_engine/worker_pool.py) and the DAG coordinator                *)
(* (orchestrator_tools/workflow_manager.py).                               *)
(*                                                                         *)
(* Times are whole seconds.  Floating-point quantities (scores, runtime    *)
(* estimates) are exact rationals <<numerator, denominator>> in lowest     *)
(* terms; user_priority is carried in tenths (9 stands for 0.9).           *)
(***************************************************************************)
EXTENDS Integers, Sequences, FiniteSets, TLC

VARIABLES
    now,          \* time.time(), whole seconds
    heap,         \* PriorityQueueScheduler.heap: the heapq list of ScoredTask
    ert,          \* the "ert" hash of the scheduler's RedisStore: agent:action -> seconds
    sched_r,      \* scheduler.redis.r is a live connection (FALSE: self.r = None)
    nextEid,      \* number of ScoredTask objects constructed so far (object identity)
    enqPending,   \* per caller thread: the ScoredTask built by enqueue but not yet pushed
    delivered,    \* per ScoredTask object: how many dequeue calls have returned it
    out,          \* the ScoredTasks dequeue has returned since the last heappush, in order
    cfg,          \* RetryTracker config: max_retries, backoff_base_s, backoff_max_s
    retry_r,      \* retry_tracker.redis.r is a live connection (FALSE: self.r = None)
    retry_q,      \* the "retry_q" sorted set: task_id -> due timestamp
    held,         \* per task_id: the task_meta dict its caller passes to schedule
    lastSched,    \* the schedule call just made: task, retry count before, result, time
    schedCount,   \* per task_id: how many schedule calls have returned True
    defn,         \* the workflow definition handed to init_workflow
    use_db,       \* WorkflowManager.db is a database (FALSE: db is None, in-memory storage)
    wf,           \* the run's workflow document: status and stats
    tasks,        \* the run's task documents: status and in_degree per task_id
    worker,       \* per agent: the worker's position in _execute_task and its task_meta
    starts,       \* number of start_workflow calls that returned True
    started,      \* per task_id: number of TASK_STARTED events emitted
    requeued,     \* per task_id: number of times the retry poll re-enqueued it
    cancelled_runs, \* run_1 is a member of the Redis set "cancelled_runs"
    initiated,    \* number of WORKFLOW_CANCELLATION_INITIATED events sent
    cancels,      \* number of cancel_workflow calls made on the run
    lastCancel,   \* the last cancel_workflow / force_complete_cancellation call and its result
    task_cancelled, \* per task_id: number of TASK_CANCELLED events emitted
    fenced,       \* the tasks that were inside the agent call when cancel_workflow
                  \* was performed on the not yet terminal workflow
    events,       \* per task_id: number of TASK_SUCCESS and of TASK_FAILED events emitted
    pool,         \* one WorkerPool: max_workers, is_running, session, the workers list
    wtask,        \* the asyncio tasks running _worker_loop, in creation order
    stopc,        \* the stop() call that is suspended at one of its awaits
    pcalls,       \* number of start() and stop() calls made on the pool
    mtasks,       \* the task documents the SLA monitor reads: status, created_at, queued_at
    lastScan,     \* the tasks the last scan of the monitor emitted an sla_violation for
    WORKFLOW_ENGINE_AVAILABLE,
                  \* the import of the workflow engine's enqueue_task succeeded
    in_memory_tokens,
                  \* TranslationQueue.in_memory_tokens: token -> status, created_at, retries
    in_memory_queue,
                  \* TranslationQueue.in_memory_queue: sequence of tokens
    tq_stats,     \* TranslationQueue.stats
    tworker,      \* TranslationWorker: where _worker_loop stands, its token and the retries it read
    current_count,
                  \* ConcurrencyGuard.current_count
    waiting_queue,
                  \* ConcurrencyGuard.waiting_queue: the number of items in it
    gcall,        \* per caller of the guard: holds a slot, where its wait_for_slot stands,
                  \* and whether a release freed a slot while it waited
    running_workflows,
                  \* OrchestratorState.running_workflows
    druns,        \* db.runs of the dashboard: workflow_id -> status
    cpc,          \* per workflow_id: where its create_run request stands
    epc,          \* per workflow_id: where its complete_run or fail_run request stands
    wallclock,    \* datetime.now(), in half milliseconds
    run_ids,      \* the run_id each init_workflow call returned, in call order
    in_memory_workflows,
                  \* WorkflowManager.in_memory_workflows: run_id -> workflow_doc
    redelivered,  \* number of TASK_SUCCESS events the event bus has delivered again
    task_retry_counts,
                  \* OrchestratorState.task_retry_counts of the dashboard backend
    hsnap,        \* per agent: the documents the find of _process_dependent_tasks returned
                  \* to the completion handler run for that agent's worker, not yet processed
    subm          \* the definition a client posts to /workflows/dsl; res is "rejected"
                  \* once the router has answered 400

schedVars == <<heap, ert, sched_r, nextEid, enqPending, delivered, out>>
retryVars == <<cfg, retry_r, retry_q, held, lastSched, schedCount>>
cancelVars == <<cancelled_runs, initiated, cancels, lastCancel, task_cancelled, fenced>>
poolVars == <<pool, wtask, stopc, pcalls>>
monVars == <<mtasks, lastScan>>
dashVars == <<task_retry_counts>>
busVars == <<redelivered>>
idVars == <<wallclock, run_ids, in_memory_workflows>>
capVars == <<running_workflows, druns, cpc, epc>>
guardVars == <<current_count, waiting_queue, gcall>>
tqVars == <<in_memory_tokens, in_memory_queue, tq_stats, tworker>>
extVars == <<dashVars, busVars, idVars, capVars, guardVars, tqVars>>
extNotDash == <<busVars, idVars, capVars, guardVars, tqVars>>
extNotBus == <<dashVars, idVars, capVars, guardVars, tqVars>>
extNotId == <<dashVars, busVars, capVars, guardVars, tqVars>>
extNotCap == <<dashVars, busVars, idVars, guardVars, tqVars>>
extNotGuard == <<dashVars, busVars, idVars, capVars, tqVars>>
extNotTq == <<dashVars, busVars, idVars, capVars, guardVars>>
sideVars == <<poolVars, monVars, hsnap, subm, WORKFLOW_ENGINE_AVAILABLE, extVars>>
engVars == <<defn, use_db, events, wf, tasks, worker, starts, started, requeued, events,
             cancelVars, sideVars>>
vars == <<now, schedVars, retryVars, engVars>>

\* the variables of the engine proper, and those of every component but the
\* dashboard state, the guards and the translation queue
engCore == <<defn, use_db, wf, tasks, worker, starts, started, requeued, events, cancelVars>>
coreVars == <<now, schedVars, retryVars, engCore, poolVars, monVars, hsnap, subm,
              WORKFLOW_ENGINE_AVAILABLE>>

----------------------------------------------------------------------------
(* Bounds of the model *)

MaxTime == 1
MaxEnq == 3
MaxRetriesCfg == 6      \* the largest max_retries a configuration of the model sets
MaxStarts == 2          \* start_workflow calls on the run
MaxCancels == 2         \* cancel_workflow calls on the run
MaxPoolCalls == 5       \* start() and stop() calls on one worker pool
MaxMonTime == 3         \* the clock of the SLA monitor's run

----------------------------------------------------------------------------
(* Exact arithmetic for the float computations *)

RECURSIVE GCD(_, _)
GCD(a, b) == IF b = 0 THEN a ELSE GCD(b, a % b)

Abs(x) == IF x < 0 THEN -x ELSE x

Rat(n, d) ==
    LET g == GCD(Abs(n), d) IN <<n \div g, d \div g>>

RLess(x, y) == x[1] * y[2] < y[1] * x[2]

RMax(x, y) == IF RLess(x, y) THEN y ELSE x

----------------------------------------------------------------------------
(* Configuration defaults *)

Alpha == 1
Beta == 2
Gamma == 3
ErtDefault == 60

Agents == {"eda_agent", "ml_agent"}
Actions == {"analyze"}
NoAgent == "none"        \* agent_filter = None
NoErt == <<0, 0>>        \* hget found no estimate
NoDeadline == 0          \* deadline_ts None (or 0): "if deadline_ts" is false
NoTask == [eid |-> 0]    \* dequeue returned None

----------------------------------------------------------------------------
(* RedisStore: runtime estimates *)

\* get_ert(agent, action, default)
get_ert(r, ertMap, agent, action, default) ==
    IF ~r THEN default
    ELSE IF <<agent, action>> \notin DOMAIN ertMap \/ ertMap[<<agent, action>>] = NoErt
         THEN default
    ELSE ertMap[<<agent, action>>]

\* update_ert(agent, action, runtime_seconds): the new "ert" hash
update_ert(r, ertMap, agent, action, runtime) ==
    IF ~r THEN ertMap
    ELSE LET old == get_ert(r, ertMap, agent, action, Rat(runtime, 1))
             new == Rat(7 * old[1] + 3 * runtime * old[2], 10 * old[2])
         IN [ertMap EXCEPT ![<<agent, action>>] = new]

----------------------------------------------------------------------------
(* PriorityQueueScheduler *)

Lt_NoTiebreak(a, b) == RLess(a.score, b.score)

\* ScoredTask.__lt__
Lt(a, b) ==
    IF a.score # b.score THEN RLess(a.score, b.score)
    ELSE a.enqueue_time < b.enqueue_time

\* ScoredTask.__eq__ (dataclass-generated): field by field, not identity
Eq(a, b) ==
    /\ a.score = b.score
    /\ a.enqueue_time = b.enqueue_time
    /\ a.task_meta = b.task_meta

score_NoPriority(task_meta, r, ertMap, t) ==
    LET e == RMax(get_ert(r, ertMap, task_meta.agent, task_meta.action, Rat(ErtDefault, 1)),
                  Rat(1, 1))
        hasDeadline == task_meta.deadline_ts # NoDeadline
        rem == IF task_meta.deadline_ts - t > 1 THEN task_meta.deadline_ts - t ELSE 1
        num == Alpha * e[2] * 10 * rem
               - Beta * task_meta.user_priority * e[1] * rem
               + (IF hasDeadline THEN Gamma * 10 * e[1] ELSE 0)
    IN Rat(-num, 10 * e[1] * rem)

\* score(task_meta) = -(alpha/max(ert,1) + beta*user_priority + gamma*urgency)
score(task_meta, r, ertMap, t) ==
    LET e == RMax(get_ert(r, ertMap, task_meta.agent, task_meta.action, Rat(ErtDefault, 1)),
                  Rat(1, 1))
        hasDeadline == task_meta.deadline_ts # NoDeadline
        rem == IF task_meta.deadline_ts - t > 1 THEN task_meta.deadline_ts - t ELSE 1
        \* alpha*e[2]/e[1] + beta*p/10 + gamma/rem over the denominator 10*e[1]*rem
        num == Alpha * e[2] * 10 * rem
               + Beta * task_meta.user_priority * e[1] * rem
               + (IF hasDeadline THEN Gamma * 10 * e[1] ELSE 0)
    IN Rat(-num, 10 * e[1] * rem)

\* heapq._siftdown(heap, startpos, pos), positions 0-based
RECURSIVE SiftDownFrom(_, _, _, _)
SiftDownFrom(h, startpos, pos, newitem) ==
    IF pos > startpos
    THEN LET parentpos == (pos - 1) \div 2
             parent == h[parentpos + 1]
         IN IF Lt(newitem, parent)
            THEN SiftDownFrom([h EXCEPT ![pos + 1] = parent], startpos, parentpos, newitem)
            ELSE [h EXCEPT ![pos + 1] = newitem]
    ELSE [h EXCEPT ![pos + 1] = newitem]

siftdown(h, startpos, pos) == SiftDownFrom(h, startpos, pos, h[pos + 1])

\* heapq._siftup(heap, pos): bubble the smaller child up to a leaf, then sift down
RECURSIVE SiftUpFrom(_, _, _, _)
SiftUpFrom(h, startpos, pos, newitem) ==
    LET endpos == Len(h)
        childpos == 2 * pos + 1
        rightpos == childpos + 1
        c == IF rightpos < endpos /\ ~Lt(h[childpos + 1], h[rightpos + 1])
             THEN rightpos ELSE childpos
    IN IF childpos < endpos
       THEN SiftUpFrom([h EXCEPT ![pos + 1] = h[c + 1]], startpos, c, newitem)
       ELSE siftdown([h EXCEPT ![pos + 1] = newitem], startpos, pos)

siftup(h, pos) == SiftUpFrom(h, pos, pos, h[pos + 1])

\* heapq.heappush(heap, item)
heappush(h, item) == siftdown(Append(h, item), 0, Len(h))

\* heapq.heappop(heap): the item returned and the heap left
heappop(h) ==
    LET lastelt == h[Len(h)]
        rest == SubSeq(h, 1, Len(h) - 1)
    IN IF rest # <<>>
       THEN [item |-> h[1], heap |-> siftup([rest EXCEPT ![1] = lastelt], 0)]
       ELSE [item |-> lastelt, heap |-> rest]

\* heapq.heapify(x): for i in reversed(range(n//2)): _siftup(x, i)
RECURSIVE HeapifyFrom(_, _)
HeapifyFrom(h, i) == IF i < 0 THEN h ELSE HeapifyFrom(siftup(h, i), i - 1)

heapify(h) == HeapifyFrom(h, (Len(h) \div 2) - 1)

\* "while self.heap: scored_task = heapq.heappop(self.heap)": the pop order
RECURSIVE PopAll(_)
PopAll(h) ==
    IF h = <<>> THEN <<>>
    ELSE LET p == heappop(h) IN <<p.item>> \o PopAll(p.heap)

RECURSIVE MinByScore_Last(_)
MinByScore_Last(s) ==
    IF Len(s) = 1 THEN s[1]
    ELSE LET m == MinByScore_Last(Tail(s))
         IN IF RLess(s[1].score, m.score) THEN s[1] ELSE m

\* min(matching_tasks, key=lambda t: t.score): the first item of least score
RECURSIVE MinByScore(_)
MinByScore(s) ==
    IF Len(s) = 1 THEN s[1]
    ELSE LET m == MinByScore(Tail(s))
         IN IF RLess(m.score, s[1].score) THEN m ELSE s[1]

RECURSIVE PushAll(_, _)
PushAll(h, items) ==
    IF items = <<>> THEN h ELSE PushAll(heappush(h, items[1]), Tail(items))

dequeue_KeepBest(h, agent_filter) ==
    IF h = <<>> THEN [task |-> NoTask, heap |-> h]
    ELSE IF agent_filter = NoAgent
    THEN LET p == heappop(h) IN [task |-> p.item, heap |-> p.heap]
    ELSE LET popped == PopAll(h)
             matching_tasks == SelectSeq(popped, LAMBDA t: t.task_meta.agent = agent_filter)
             remaining_tasks == SelectSeq(popped, LAMBDA t: t.task_meta.agent # agent_filter)
             rebuilt == heapify(remaining_tasks)
         IN IF matching_tasks # <<>>
            THEN [task |-> MinByScore(matching_tasks), heap |-> PushAll(rebuilt, matching_tasks)]
            ELSE [task |-> NoTask, heap |-> rebuilt]

\* dequeue(agent_filter): [task |-> the ScoredTask returned or NoTask, heap |-> heap left]
dequeue(h, agent_filter) ==
    IF h = <<>> THEN [task |-> NoTask, heap |-> h]
    ELSE IF agent_filter = NoAgent
    THEN LET p == heappop(h) IN [task |-> p.item, heap |-> p.heap]
    ELSE LET popped == PopAll(h)
             matching_tasks == SelectSeq(popped, LAMBDA t: t.task_meta.agent = agent_filter)
             remaining_tasks == SelectSeq(popped, LAMBDA t: t.task_meta.agent # agent_filter)
             rebuilt == heapify(remaining_tasks)
         IN IF matching_tasks # <<>>
            THEN LET best_task == MinByScore(matching_tasks)
                     back == SelectSeq(matching_tasks, LAMBDA t: ~Eq(t, best_task))
                 IN [task |-> best_task, heap |-> PushAll(rebuilt, back)]
            ELSE [task |-> NoTask, heap |-> rebuilt]

\* remove_task(task_id): the heap left
remove_task(h, task_id) ==
    heapify(SelectSeq(h, LAMBDA t: t.task_meta.task_id # task_id))

\* enqueue builds ScoredTask(score, time.time(), task_meta); eid and ert_used are
\* bookkeeping of the model (object identity, the estimate the score was computed from)
ScoredTask(task_meta, r, ertMap, t, eid) ==
    [score |-> score(task_meta, r, ertMap, t),
     enqueue_time |-> t,
     task_meta |-> task_meta,
     eid |-> eid,
     ert_used |-> get_ert(r, ertMap, task_meta.agent, task_meta.action, Rat(ErtDefault, 1))]

----------------------------------------------------------------------------
(* RetryTracker and the delay queue of its RedisStore *)

MaxRetriesDefault == 3
BackoffBaseDefault == 15
BackoffMaxDefault == 300

TaskIds == {"A", "B", "C"}
NoDue == -1              \* the sorted set has no member task_id
NoError == "none"
Errors == {"Agent returned 400", "Agent returned 503", "timeout"}

RECURSIVE Pow2(_)
Pow2(n) == IF n = 0 THEN 1 ELSE 2 * Pow2(n - 1)

Min(a, b) == IF a < b THEN a ELSE b

\* delay = min(backoff_base_s * 2**current_retries, backoff_max_s)
backoff_delay(c, current_retries) ==
    Min(c.backoff_base_s * Pow2(current_retries), c.backoff_max_s)

\* RedisStore.zadd_retry(task_id, timestamp): [ok, q]
zadd_retry(r, q, task_id, timestamp) ==
    IF ~r THEN [ok |-> FALSE, q |-> q]
    ELSE [ok |-> TRUE, q |-> [q EXCEPT ![task_id] = timestamp]]

\* RedisStore.fetch_due_retries(now): [due, q]
fetch_due_retries(r, q, t) ==
    IF ~r THEN [due |-> {}, q |-> q]
    ELSE LET due == {id \in DOMAIN q : q[id] # NoDue /\ q[id] <= t}
         IN [due |-> due, q |-> [id \in DOMAIN q |-> IF id \in due THEN NoDue ELSE q[id]]]

\* schedule with the exhaustion test off by one
schedule_OffByOne(c, r, q, task_meta, error_context, t) ==
    LET current_retries == task_meta.retries IN
    IF current_retries > c.max_retries
    THEN [ret |-> FALSE, task_meta |-> task_meta, q |-> q]
    ELSE LET retry_timestamp == t + backoff_delay(c, current_retries)
             updated == [task_meta EXCEPT !.retries = current_retries + 1,
                                          !.last_error = error_context]
             z == zadd_retry(r, q, task_meta.task_id, retry_timestamp)
         IN [ret |-> z.ok, task_meta |-> updated, q |-> z.q]

\* RetryTracker.schedule(task_meta, error_context):
\* [ret, task_meta (the caller's dict after the call), q]
schedule(c, r, q, task_meta, error_context, t) ==
    LET current_retries == task_meta.retries IN
    IF current_retries >= c.max_retries
    THEN [ret |-> FALSE, task_meta |-> task_meta, q |-> q]
    ELSE LET retry_timestamp == t + backoff_delay(c, current_retries)
             updated == [task_meta EXCEPT !.retries = current_retries + 1,
                                          !.last_error = error_context]
             z == zadd_retry(r, q, task_meta.task_id, retry_timestamp)
         IN [ret |-> z.ok, task_meta |-> updated, q |-> z.q]

\* RetryTracker._fetch_task_metadata(task_id): always None
NoMeta == [task_id |-> "none"]
fetch_task_metadata(task_id) == NoMeta

Configs ==
    [max_retries : {0, MaxRetriesDefault, MaxRetriesCfg},
     backoff_base_s : {BackoffBaseDefault}, backoff_max_s : {BackoffMaxDefault}]
    \cup
    [max_retries : {MaxRetriesDefault, MaxRetriesCfg},
     backoff_base_s : {1}, backoff_max_s : {10}]

DefaultConfig ==
    [max_retries |-> MaxRetriesDefault, backoff_base_s |-> BackoffBaseDefault,
     backoff_max_s |-> BackoffMaxDefault]

NoSched == [task_id |-> "none", n |-> 0, ret |-> FALSE, at |-> 0]

\* the retry tracker untouched
RetryIdle ==
    /\ cfg = DefaultConfig
    /\ retry_r = TRUE
    /\ retry_q = [id \in TaskIds |-> NoDue]
    /\ held = [id \in TaskIds |-> NoTask]
    /\ lastSched = NoSched
    /\ schedCount = [id \in TaskIds |-> 0]

----------------------------------------------------------------------------
(* WorkflowManager: records of one run *)

NoDef == [ids |-> <<>>, task |-> <<>>]
NoWf == [status |-> "none", total_tasks |-> 0, completed_tasks |-> 0, failed_tasks |-> 0]
NoDoc == [status |-> "none", in_degree |-> 0]
IdleWorker == [pc |-> "idle", task_meta |-> NoMeta, started_at |-> 0]
NoCancel == [op |-> "none", ret |-> FALSE]

\* no cancellation requested
CancelIdle ==
    /\ cancelled_runs = FALSE
    /\ initiated = 0
    /\ cancels = 0
    /\ lastCancel = NoCancel
    /\ task_cancelled = [id \in TaskIds |-> 0]
    /\ fenced = {}

NoStop == [pc |-> "none", waits |-> {}]

\* no worker pool constructed
PoolIdle ==
    /\ pool = [max_workers |-> 0, is_running |-> FALSE, session |-> 0, workers |-> {},
               sessions |-> 0, closed |-> {}]
    /\ wtask = <<>>
    /\ stopc = NoStop
    /\ pcalls = 0

NoSubm == [d |-> NoDef, res |-> "none"]

NoMonDoc == [status |-> "none", created_at |-> 0, queued_at |-> 0]

\* no task document in the monitor's collection, no scan made
MonIdle ==
    /\ mtasks = [id \in TaskIds |-> NoMonDoc]
    /\ lastScan = {}

NoSnap == [a \in Agents |-> <<>>]

DashIdle == task_retry_counts = [id \in TaskIds |-> 0]

BusIdle == redelivered = 0

\* the run_ids a clock reading up to MaxWallclock yields; NoRunDoc: no document
MaxWallclock == 5
RunIds == 0..(MaxWallclock \div 2)
NoRunDoc == [call |-> 0, total_tasks |-> 0]

IdIdle ==
    /\ wallclock = 0
    /\ run_ids = <<>>
    /\ in_memory_workflows = [r \in RunIds |-> NoRunDoc]

WorkflowIds == {"w1", "w2", "w3"}

CapIdle ==
    /\ running_workflows = 0
    /\ druns = [w \in WorkflowIds |-> "none"]
    /\ cpc = [w \in WorkflowIds |-> "none"]
    /\ epc = [w \in WorkflowIds |-> "none"]

Callers == {"c1", "c2"}

NoCall == [pc |-> "idle", holds |-> FALSE, deadline |-> 0, freed |-> FALSE]

GuardIdle ==
    /\ current_count = 0
    /\ waiting_queue = 0
    /\ gcall = [p \in Callers |-> NoCall]

Tokens == {"t1", "t2"}

NoToken == [status |-> "none", created_at |-> 0, retries |-> 0]

NoStats ==
    [translations_queued |-> 0, translations_completed |-> 0, translations_failed |-> 0,
     translations_timed_out |-> 0, translations_needs_human |-> 0]

TqIdle ==
    /\ in_memory_tokens = [t \in Tokens |-> NoToken]
    /\ in_memory_queue = <<>>
    /\ tq_stats = NoStats
    /\ tworker = [pc |-> "idle", token |-> "t1", retries |-> 0]

ExtIdle == DashIdle /\ BusIdle /\ IdIdle /\ CapIdle /\ GuardIdle /\ TqIdle

SideIdle ==
    /\ PoolIdle /\ MonIdle /\ hsnap = NoSnap /\ subm = NoSubm
    /\ WORKFLOW_ENGINE_AVAILABLE = TRUE
    /\ ExtIdle

NoEvents == [id \in TaskIds |-> [success |-> 0, failed |-> 0]]

\* no workflow submitted, every worker polling
EngineIdle ==
    /\ defn = NoDef
    /\ use_db = TRUE
    /\ wf = NoWf
    /\ tasks = [id \in TaskIds |-> NoDoc]
    /\ worker = [a \in Agents |-> IdleWorker]
    /\ starts = 0
    /\ started = [id \in TaskIds |-> 0]
    /\ requeued = [id \in TaskIds |-> 0]
    /\ events = NoEvents
    /\ CancelIdle

----------------------------------------------------------------------------
(* The scheduler under concurrent callers.  enqueue computes the score and   *)
(* reads the clock before it takes the lock, and pushes under the lock;      *)
(* dequeue and remove_task run wholly under the lock.                        *)

EnqThreads == {"t1", "t2"}
NoPending == [eid |-> 0]
Eids == 1..MaxEnq

\* task_meta as _enqueue_task builds it (params, metadata and timestamps are opaque)
TaskMeta(run_id, task_id, agent, action, user_priority, deadline_ts, retries) ==
    [run_id |-> run_id, task_id |-> task_id, agent |-> agent, action |-> action,
     user_priority |-> user_priority, deadline_ts |-> deadline_ts, retries |-> retries,
     last_error |-> NoError]

\* the task_metas callers enqueue: (agent, task_id, user_priority in tenths, deadline_ts)
SchedMetas ==
    { TaskMeta("run_1", x[2], x[1], "analyze", x[3], x[4], 0) :
        x \in {<<"eda_agent", "A", 9, NoDeadline>>,
               <<"eda_agent", "B", 1, NoDeadline>>,
               <<"eda_agent", "B", 1, MaxTime + 1>>,
               <<"ml_agent", "A", 9, NoDeadline>>} }

\* the estimates the scheduler may find in its store
ErtMaps ==
    {[k \in Agents \X Actions |-> IF k[1] = "eda_agent" THEN Rat(30, 1) ELSE NoErt]}

SchedIdle ==
    /\ heap = <<>>
    /\ sched_r = TRUE
    /\ ert = [k \in Agents \X Actions |-> NoErt]
    /\ nextEid = 1
    /\ enqPending = [th \in EnqThreads |-> NoPending]
    /\ delivered = [i \in Eids |-> 0]
    /\ out = <<>>

InitSched ==
    /\ now = 0
    /\ heap = <<>>
    /\ sched_r \in BOOLEAN
    /\ ert \in ErtMaps
    /\ nextEid = 1
    /\ enqPending = [th \in EnqThreads |-> NoPending]
    /\ delivered = [i \in Eids |-> 0]
    /\ out = <<>>
    /\ RetryIdle
    /\ EngineIdle
    /\ SideIdle

\* the clock is read by enqueue only
TickSched ==
    /\ now < MaxTime
    /\ nextEid <= MaxEnq
    /\ now' = now + 1
    /\ UNCHANGED <<heap, ert, sched_r, nextEid, enqPending, delivered, out, retryVars, engVars>>

\* enqueue, lines 129-134: score and ScoredTask, outside the lock
EnqBegin(th, task_meta) ==
    /\ enqPending[th].eid = 0
    /\ nextEid <= MaxEnq
    /\ enqPending' = [enqPending EXCEPT ![th] = ScoredTask(task_meta, sched_r, ert, now, nextEid)]
    /\ nextEid' = nextEid + 1
    /\ UNCHANGED <<now, heap, ert, sched_r, delivered, out, retryVars, engVars>>

\* enqueue, lines 136-146: heappush under the lock
EnqPush(th) ==
    /\ enqPending[th].eid # 0
    /\ heap' = heappush(heap, enqPending[th])
    /\ enqPending' = [enqPending EXCEPT ![th] = NoPending]
    /\ out' = <<>>
    /\ UNCHANGED <<now, ert, sched_r, nextEid, delivered, retryVars, engVars>>

\* one dequeue call, filtered on an agent or not
DequeueCall(agent_filter) ==
    LET d == dequeue(heap, agent_filter) IN
    /\ heap' = d.heap
    /\ IF d.task.eid # 0
       THEN /\ out' = Append(out, [e |-> d.task, filt |-> agent_filter])
            /\ delivered' = [delivered EXCEPT ![d.task.eid] = @ + 1]
       ELSE UNCHANGED <<out, delivered>>
    /\ UNCHANGED <<now, ert, sched_r, nextEid, enqPending, retryVars, engVars>>

RemoveTask(task_id) ==
    /\ heap # <<>>
    /\ heap' = remove_task(heap, task_id)
    /\ UNCHANGED <<now, ert, sched_r, nextEid, enqPending, delivered, out, retryVars, engVars>>

NextSched ==
    \/ TickSched
    \/ \E th \in EnqThreads, m \in SchedMetas : EnqBegin(th, m)
    \/ \E th \in EnqThreads : EnqPush(th)
    \/ \E f \in Agents \cup {NoAgent} : DequeueCall(f)
    \/ \E id \in {"A", "B"} : RemoveTask(id)

SpecSched == InitSched /\ [][NextSched]_vars

----------------------------------------------------------------------------
(* The retry tracker on its own: callers hand failed tasks to schedule, *)
(* the poll loop collects due entries.                                   *)

RetryTasks == {"A", "B"}      \* the tasks whose callers reach schedule

InitRetry ==
    /\ now = 0
    /\ SchedIdle
    /\ cfg \in Configs
    /\ retry_r \in BOOLEAN
    /\ retry_q = [id \in TaskIds |-> NoDue]
    /\ held = [id \in TaskIds |-> TaskMeta("run_1", id, "eda_agent", "analyze", 5, NoDeadline, 0)]
    /\ lastSched = NoSched
    /\ schedCount = [id \in TaskIds |-> 0]
    /\ EngineIdle
    /\ SideIdle

Tick ==
    /\ now < MaxTime
    /\ now' = now + 1
    /\ lastSched' = NoSched
    /\ UNCHANGED <<schedVars, cfg, retry_r, retry_q, held, schedCount, engVars>>

\* a caller hands the failed task to the retry tracker
ScheduleCall(id, error_context) ==
    LET s == schedule(cfg, retry_r, retry_q, held[id], error_context, now) IN
    /\ held' = [held EXCEPT ![id] = s.task_meta]
    /\ retry_q' = s.q
    /\ lastSched' = [task_id |-> id, n |-> held[id].retries, ret |-> s.ret, at |-> now]
    /\ schedCount' = [schedCount EXCEPT ![id] = IF s.ret THEN @ + 1 ELSE @]
    /\ UNCHANGED <<now, schedVars, cfg, retry_r, engVars>>

\* the loop of _process_due_retries over due_task_ids, in due-time order:
\* scheduler.enqueue for every id whose metadata was fetched
RECURSIVE ReEnqueue(_, _, _, _, _)
ReEnqueue(h, ids, q, eid, done) ==
    IF ids = {} THEN [heap |-> h, eid |-> eid, done |-> done]
    ELSE LET id == CHOOSE x \in ids : \A y \in ids : q[x] <= q[y]
             task_meta == fetch_task_metadata(id)
         IN IF task_meta.task_id = NoMeta.task_id
            THEN ReEnqueue(h, ids \ {id}, q, eid, done)
            ELSE ReEnqueue(heappush(h, ScoredTask(task_meta, sched_r, ert, now, eid)),
                           ids \ {id}, q, eid + 1, done \cup {id})

\* one round of _poll_loop: _process_due_retries
PollRetries ==
    LET f == fetch_due_retries(retry_r, retry_q, now)
        e == ReEnqueue(heap, f.due, retry_q, nextEid, {})
    IN /\ retry_q' = f.q
       /\ heap' = e.heap
       /\ nextEid' = e.eid
       /\ requeued' = [id \in TaskIds |-> IF id \in e.done THEN requeued[id] + 1 ELSE requeued[id]]
       /\ lastSched' = NoSched
       /\ UNCHANGED <<now, ert, sched_r, enqPending, delivered, out,
                      cfg, retry_r, held, schedCount,
                      defn, use_db, sideVars, events, wf, tasks, worker, starts, started, cancelVars>>

NextRetry ==
    \/ Tick
    \/ \E id \in RetryTasks, e \in Errors : ScheduleCall(id, e)
    \/ PollRetries

SpecRetry == InitRetry /\ [][NextRetry]_vars

----------------------------------------------------------------------------
(* WorkflowManager: init_workflow, start_workflow, handle_task_completion *)

PriorityDefault == 5     \* definition.get("priority", 0.5), in tenths

Task(agent, depends_on) == [agent |-> agent, action |-> "analyze", depends_on |-> depends_on]

\* the definitions the submission layer passes on: a single task, a chain,
\* a join of two agents' tasks, a fork, and a depends_on list naming a task twice
Definitions ==
    { [ids |-> <<"A">>,
       task |-> [A |-> Task("eda_agent", <<>>)]],
      [ids |-> <<"A", "B", "C">>,
       task |-> [A |-> Task("eda_agent", <<>>), B |-> Task("eda_agent", <<"A">>),
                 C |-> Task("eda_agent", <<"B">>)]],
      [ids |-> <<"A", "B", "C">>,
       task |-> [A |-> Task("eda_agent", <<>>), B |-> Task("ml_agent", <<>>),
                 C |-> Task("eda_agent", <<"A", "B">>)]],
      [ids |-> <<"A", "B", "C">>,
       task |-> [A |-> Task("eda_agent", <<>>), B |-> Task("eda_agent", <<"A">>),
                 C |-> Task("ml_agent", <<"A">>)]],
      [ids |-> <<"A", "B">>,
       task |-> [A |-> Task("eda_agent", <<>>), B |-> Task("eda_agent", <<"A", "A">>)]] }

IsIn(x, seq) == \E i \in 1..Len(seq) : seq[i] = x

\* _create_task_documents: in_degree = len(depends_on)
create_task_documents(d) ==
    [id \in TaskIds |->
        IF IsIn(id, d.ids)
        THEN [status |-> "pending", in_degree |-> Len(d.task[id].depends_on)]
        ELSE NoDoc]

\* what a handler of the coordinator reads and writes
Coord == [wf |-> wf, tasks |-> tasks, heap |-> heap, eid |-> nextEid, ert |-> ert]

\* _enqueue_task(task): status QUEUED, then engine_enqueue_task(task_meta)
\* "if WORKFLOW_ENGINE_AVAILABLE" (kafka_producer is None: no fallback)
enqueue_task(c, id) ==
    LET task_meta == TaskMeta("run_1", id, defn.task[id].agent, defn.task[id].action,
                              PriorityDefault, NoDeadline, 0)
        c1 == [c EXCEPT !.tasks[id].status = IF use_db THEN "queued" ELSE @]
    IN IF WORKFLOW_ENGINE_AVAILABLE
       THEN [c1 EXCEPT !.heap = heappush(c.heap, ScoredTask(task_meta, sched_r, c.ert, now, c.eid)),
                       !.eid = c.eid + 1]
       ELSE c1

RECURSIVE EnqueueAll(_, _)
EnqueueAll(c, ids) ==
    IF ids = <<>> THEN c ELSE EnqueueAll(enqueue_task(c, Head(ids)), Tail(ids))

\* the query of enqueue_initial_tasks without its status condition
root_tasks_AnyStatus(t, ids) ==
    SelectSeq(ids, LAMBDA id : t[id].in_degree = 0)

\* the query of enqueue_initial_tasks: in_degree 0 and status PENDING
root_tasks(t, ids) ==
    SelectSeq(ids, LAMBDA id : t[id].in_degree = 0 /\ t[id].status = "pending")

enqueue_initial_tasks(c) ==
    IF ~use_db THEN c ELSE EnqueueAll(c, root_tasks(c.tasks, defn.ids))

\* the query of _process_dependent_tasks: PENDING tasks whose depends_on holds the id
dependent_tasks(t, ids, completed_task_id) ==
    SelectSeq(ids, LAMBDA id : /\ IsIn(completed_task_id, defn.task[id].depends_on)
                               /\ t[id].status = "pending")

\* a successor is enqueued one completion early
ReachesZero_OffByOne(new_in_degree) == new_in_degree <= 1

\* if new_in_degree == 0
ReachesZero(new_in_degree) == new_in_degree = 0

\* the loop of _process_dependent_tasks over the documents the query returned
RECURSIVE ProcessDependents(_, _)
ProcessDependents(c, docs) ==
    IF docs = <<>> THEN c
    ELSE LET id == Head(docs).id
             new_in_degree == Head(docs).in_degree - 1
             c1 == [c EXCEPT !.tasks[id].in_degree = new_in_degree]
             c2 == IF ReachesZero(new_in_degree) THEN enqueue_task(c1, id) ELSE c1
         IN ProcessDependents(c2, Tail(docs))

process_dependent_tasks(c, completed_task_id) ==
    LET ids == dependent_tasks(c.tasks, defn.ids, completed_task_id)
    IN ProcessDependents(c, [i \in 1..Len(ids) |->
                                [id |-> ids[i], in_degree |-> c.tasks[ids[i]].in_degree]])

check_workflow_completion(c) ==
    IF c.wf.completed_tasks + c.wf.failed_tasks >= c.wf.total_tasks
    THEN IF c.wf.failed_tasks > 0
         THEN [c EXCEPT !.wf.status = "failed"]
         ELSE [c EXCEPT !.wf.status = "completed"]
    ELSE c

handle_task_completion(c, id, success) ==
    IF ~use_db THEN c
    ELSE LET c1 == [c EXCEPT !.tasks[id].status = IF success THEN "completed" ELSE "failed",
                             !.wf.completed_tasks = IF success THEN @ + 1 ELSE @,
                             !.wf.failed_tasks = IF success THEN @ ELSE @ + 1]
             c2 == IF success THEN process_dependent_tasks(c1, id) ELSE c1
         IN check_workflow_completion(c2)

----------------------------------------------------------------------------
(* WorkflowManager: cancel_workflow and force_complete_cancellation.  The    *)
(* records carry the status strings the code writes: the enum values         *)
(* ("pending", "running", "completed", ...) written by init_workflow,        *)
(* start_workflow, _enqueue_task and _check_workflow_completion, and the      *)
(* literals "CANCELLING" and "CANCELLED" written by the cancellation path.    *)

\* the statuses cancel_workflow refuses: ["COMPLETED", "FAILED", "CANCELLED"]
CancelRefused == {"COMPLETED", "FAILED", "CANCELLED"}

\* WorkflowManager defines _emit_event only: self._send_event raises
\* AttributeError, which the handler's except clause turns into return False
send_event_defined == FALSE

\* update_many({"status": {"$in": from}}, {"$set": {"status": "CANCELLED"}})
mark_cancelled(t, from) ==
    [id \in TaskIds |->
        IF t[id].status \in from THEN [t[id] EXCEPT !.status = "CANCELLED"] ELSE t[id]]

\* cancel_workflow(run_id): [ret, wf, tasks, cancelled_runs, initiated]
cancel_workflow(w, t, cr, n) ==
    LET refused == [ret |-> FALSE, wf |-> w, tasks |-> t, cancelled_runs |-> cr,
                    initiated |-> n]
    IN IF use_db
       THEN IF w.status = "none" \/ w.status \in CancelRefused
            THEN refused
            ELSE LET w1 == [w EXCEPT !.status = "CANCELLING"]
                     t1 == mark_cancelled(t, {"PENDING", "QUEUED"})
                     \* RUNNING tasks get cancellation_requested, their status stays;
                     \* sadd on a Redis that does not answer is caught and logged
                     cr1 == IF retry_r THEN TRUE ELSE cr
                 IN IF send_event_defined
                    THEN [ret |-> TRUE, wf |-> w1, tasks |-> t1, cancelled_runs |-> cr1,
                          initiated |-> n + 1]
                    ELSE [ret |-> FALSE, wf |-> w1, tasks |-> t1, cancelled_runs |-> cr1,
                          initiated |-> n]
       ELSE IF w.status = "none"
            THEN refused
            ELSE [ret |-> TRUE, wf |-> [w EXCEPT !.status = "CANCELLED"],
                  tasks |-> mark_cancelled(t, {"PENDING", "QUEUED", "RUNNING"}),
                  cancelled_runs |-> cr, initiated |-> n]

\* force_complete_cancellation(run_id): [ret, wf, tasks]
force_complete_cancellation(w, t) ==
    IF w.status # "CANCELLING"
    THEN [ret |-> FALSE, wf |-> w, tasks |-> t]
    ELSE [ret |-> TRUE, wf |-> [w EXCEPT !.status = "CANCELLED"],
          tasks |-> IF use_db THEN mark_cancelled(t, {"RUNNING"}) ELSE t]

----------------------------------------------------------------------------
(* WorkerPool._is_workflow_cancelled: scheduler.redis is a RedisStore, which *)
(* has the attribute r and no attribute redis_client; the AttributeError is  *)
(* caught by the outer except clause, which returns False.                   *)

is_workflow_cancelled(cr) == FALSE

----------------------------------------------------------------------------
(* The coordinator's reaction to worker events (section 4.5 of the          *)
(* specification; the module that registers the callbacks is not part of    *)
(* the sources)                                                              *)

\* no response: the ClientTimeout expired or the connection failed, session.post raises
NoResponse == 0

\* what the agent call may end with: an HTTP status or no response
Responses == {200, 201, 400, 503, NoResponse}

\* _call_agent returns the body when response.status == 200 and raises otherwise
call_agent(resp) == resp = 200

\* transient failures (5xx, timeout, connection failure) are retriable,
\* validation failures (4xx) are not
Retriable(resp) == resp >= 500 \/ resp = NoResponse

ErrorOf(resp) ==
    IF resp = NoResponse THEN "timeout"
    ELSE IF resp = 503 THEN "Agent returned 503"
    ELSE IF resp = 201 THEN "Agent returned 201"
    ELSE "Agent returned 400"

\* QUEUED -> RUNNING when the worker has dequeued the task
on_task_started(c, id) == [c EXCEPT !.tasks[id].status = "running"]

on_task_success(c, id) == handle_task_completion(c, id, TRUE)

\* TASK_CANCELLED marks the task CANCELLED and touches no counter
on_task_cancelled(c, id) == [c EXCEPT !.tasks[id].status = "cancelled"]

\* retriable and under the cap: RETRY; otherwise the failure is terminal
on_task_failed(c, task_meta, resp) ==
    IF Retriable(resp) /\ task_meta.retries < cfg.max_retries
    THEN [c EXCEPT !.tasks[task_meta.task_id].status = "retry"]
    ELSE handle_task_completion(c, task_meta.task_id, FALSE)

----------------------------------------------------------------------------
(* The engine: one run, one worker per enabled agent *)

EngineConfigs ==
    {DefaultConfig,
     [DefaultConfig EXCEPT !.max_retries = 0],
     [DefaultConfig EXCEPT !.backoff_base_s = 1, !.backoff_max_s = 10]}

InitManager ==
    /\ now = 0
    /\ SchedIdle
    /\ cfg \in EngineConfigs
    /\ retry_r \in BOOLEAN
    /\ retry_q = [id \in TaskIds |-> NoDue]
    /\ held = [id \in TaskIds |-> NoTask]
    /\ lastSched = NoSched
    /\ schedCount = [id \in TaskIds |-> 0]
    /\ defn = NoDef
    /\ use_db \in BOOLEAN
    /\ wf = NoWf
    /\ tasks = [id \in TaskIds |-> NoDoc]
    /\ worker = [a \in Agents |-> IdleWorker]
    /\ starts = 0
    /\ started = [id \in TaskIds |-> 0]
    /\ requeued = [id \in TaskIds |-> 0]
    /\ events = NoEvents
    /\ CancelIdle
    /\ PoolIdle /\ MonIdle /\ hsnap = NoSnap /\ subm = NoSubm
    /\ ExtIdle

\* the workflow engine package was imported
Init == InitManager /\ WORKFLOW_ENGINE_AVAILABLE = TRUE

\* init_workflow(workflow_def)
InitWorkflow(d) ==
    /\ wf.status = "none"
    /\ defn' = d
    /\ wf' = [status |-> "pending", total_tasks |-> Len(d.ids),
              completed_tasks |-> 0, failed_tasks |-> 0]
    /\ tasks' = create_task_documents(d)
    /\ lastSched' = NoSched
    /\ UNCHANGED <<now, schedVars, cfg, retry_r, retry_q, held, schedCount,
                   use_db, sideVars, events, worker, starts, started, requeued, cancelVars>>

\* start_workflow(run_id)
StartWorkflow ==
    /\ wf.status # "none"
    /\ starts < MaxStarts
    /\ LET c == enqueue_initial_tasks(
                   [Coord EXCEPT !.wf.status = IF use_db THEN "running" ELSE @])
       IN /\ wf' = c.wf
          /\ tasks' = c.tasks
          /\ heap' = c.heap
          /\ nextEid' = c.eid
    /\ starts' = starts + 1
    /\ lastSched' = NoSched
    /\ UNCHANGED <<now, ert, sched_r, enqPending, delivered, out,
                   cfg, retry_r, retry_q, held, schedCount,
                   defn, use_db, sideVars, events, worker, started, requeued, cancelVars>>

\* _worker_loop: dequeue for the agent; _execute_task up to the agent call
WorkerDequeue(a) ==
    /\ worker[a].pc = "idle"
    /\ LET d == dequeue(heap, a)
           id == d.task.task_meta.task_id
       IN /\ d.task.eid # 0
          /\ heap' = d.heap
          /\ IF is_workflow_cancelled(cancelled_runs)
             THEN /\ task_cancelled' = [task_cancelled EXCEPT ![id] = @ + 1]
                  /\ tasks' = on_task_cancelled(Coord, id).tasks
                  /\ UNCHANGED <<worker, started>>
             ELSE /\ worker' = [worker EXCEPT ![a] = [pc |-> "calling",
                                                      task_meta |-> d.task.task_meta,
                                                      started_at |-> now]]
                  /\ started' = [started EXCEPT ![id] = @ + 1]
                  /\ tasks' = on_task_started(Coord, id).tasks
                  /\ UNCHANGED task_cancelled
    /\ lastSched' = NoSched
    /\ UNCHANGED <<now, ert, sched_r, nextEid, enqPending, delivered, out,
                   cfg, retry_r, retry_q, held, schedCount,
                   defn, use_db, sideVars, events, wf, starts, requeued,
                   cancelled_runs, initiated, cancels, lastCancel, fenced>>

\* _execute_task from the agent's answer on
WorkerResponse(a, resp) ==
    /\ worker[a].pc = "calling"
    /\ LET task_meta == worker[a].task_meta
           id == task_meta.task_id
       IN IF call_agent(resp)
          THEN LET e == update_ert(sched_r, ert, a, task_meta.action, now - worker[a].started_at)
                   c == on_task_success([Coord EXCEPT !.ert = e], id)
               IN /\ ert' = e
                  /\ wf' = c.wf
                  /\ tasks' = c.tasks
                  /\ heap' = c.heap
                  /\ nextEid' = c.eid
                  /\ lastSched' = NoSched
                  /\ events' = [events EXCEPT ![id].success = @ + 1]
                  /\ UNCHANGED <<retry_q, schedCount>>
          ELSE LET c == on_task_failed(Coord, task_meta, resp)
                   s == schedule(cfg, retry_r, retry_q, task_meta, ErrorOf(resp), now)
               IN /\ wf' = c.wf
                  /\ tasks' = c.tasks
                  /\ heap' = c.heap
                  /\ nextEid' = c.eid
                  /\ retry_q' = s.q
                  /\ lastSched' = [task_id |-> id, n |-> task_meta.retries,
                                    ret |-> s.ret, at |-> now]
                  /\ schedCount' = [schedCount EXCEPT ![id] = IF s.ret THEN @ + 1 ELSE @]
                  /\ events' = [events EXCEPT ![id].failed = @ + 1]
                  /\ UNCHANGED ert
    /\ worker' = [worker EXCEPT ![a] = IdleWorker]
    /\ fenced' = fenced \ {worker[a].task_meta.task_id}
    /\ UNCHANGED <<now, sched_r, enqPending, delivered, out, cfg, retry_r, held,
                   defn, use_db, sideVars, starts, started, requeued,
                   cancelled_runs, initiated, cancels, lastCancel, task_cancelled>>

\* the statuses with which a workflow has ended, as the code writes them
WfTerminal == {"completed", "failed", "CANCELLED"}

InCall == {worker[a].task_meta.task_id : a \in {b \in Agents : worker[b].pc = "calling"}}

\* cancel_workflow(run_id)
CancelWorkflow ==
    /\ cancels < MaxCancels
    /\ LET r == cancel_workflow(wf, tasks, cancelled_runs, initiated)
       IN /\ wf' = r.wf
          /\ tasks' = r.tasks
          /\ cancelled_runs' = r.cancelled_runs
          /\ initiated' = r.initiated
          /\ lastCancel' = [op |-> "cancel", ret |-> r.ret]
    /\ cancels' = cancels + 1
    /\ fenced' = IF wf.status \in WfTerminal \cup {"none"} THEN fenced ELSE fenced \cup InCall
    /\ lastSched' = NoSched
    /\ UNCHANGED <<now, schedVars, cfg, retry_r, retry_q, held, schedCount,
                   defn, use_db, sideVars, events, worker, starts, started, requeued, task_cancelled>>

\* force_complete_cancellation(run_id)
ForceComplete ==
    /\ LET r == force_complete_cancellation(wf, tasks)
       IN /\ wf' = r.wf
          /\ tasks' = r.tasks
          /\ lastCancel' = [op |-> "force", ret |-> r.ret]
    /\ lastSched' = NoSched
    /\ UNCHANGED <<now, schedVars, cfg, retry_r, retry_q, held, schedCount,
                   defn, use_db, sideVars, events, worker, starts, started, requeued,
                   cancelled_runs, initiated, cancels, task_cancelled, fenced>>

Next ==
    \/ \E d \in Definitions : InitWorkflow(d)
    \/ StartWorkflow
    \/ \E a \in Agents : WorkerDequeue(a)
    \/ \E a \in Agents, resp \in Responses : WorkerResponse(a, resp)
    \/ PollRetries
    \/ CancelWorkflow
    \/ ForceComplete
    \/ Tick

Spec == Init /\ [][Next]_vars

\* the engine whether or not the import of the workflow engine succeeded
InitAvail == InitManager /\ WORKFLOW_ENGINE_AVAILABLE \in BOOLEAN

SpecAvail == InitAvail /\ [][Next]_vars

----------------------------------------------------------------------------
(* One worker pool under a sequence of start() and stop() calls.  start() has *)
(* no await and runs in one piece; stop() suspends at "await                 *)
(* asyncio.gather(...)" and at "await self.session.close()", and the workers *)
(* run in between.                                                           *)

PoolAgent == "eda_agent"

\* config.get("max_workers_per_agent", {}).get(agent, 1)
PoolConfigs == {1, 2}

\* the ready tasks of the agent, in the scheduler before the pool is started
PoolMetas ==
    [i \in 1..MaxEnq |->
        TaskMeta("run_1", <<"A", "B", "C">>[((i - 1) % 3) + 1], PoolAgent, "analyze",
                 PriorityDefault, NoDeadline, 0)]

RECURSIVE PoolHeap(_)
PoolHeap(n) ==
    IF n = 0 THEN <<>>
    ELSE heappush(PoolHeap(n - 1),
                  ScoredTask(PoolMetas[n], TRUE, [k \in Agents \X Actions |-> NoErt], 0, n))

\* asyncio.create_task(self._worker_loop(i)): at the top of the loop, holding no task
NewWorker == [pc |-> "loop", cancel |-> FALSE, holds |-> {}, sess |-> 0]

InitPool ==
    /\ now = 0
    /\ heap = PoolHeap(MaxEnq)
    /\ sched_r = TRUE
    /\ ert = [k \in Agents \X Actions |-> NoErt]
    /\ nextEid = MaxEnq + 1
    /\ enqPending = [th \in EnqThreads |-> NoPending]
    /\ delivered = [i \in Eids |-> 0]
    /\ out = <<>>
    /\ RetryIdle
    /\ EngineIdle
    /\ \E n \in PoolConfigs :
          pool = [max_workers |-> n, is_running |-> FALSE, session |-> 0, workers |-> {},
                  sessions |-> 0, closed |-> {}]
    /\ wtask = <<>>
    /\ stopc = NoStop
    /\ pcalls = 0
    /\ MonIdle
    /\ hsnap = NoSnap
    /\ WORKFLOW_ENGINE_AVAILABLE = TRUE
    /\ ExtIdle
    /\ subm = NoSubm

\* what start() does once past its "if self.is_running: return"
spawn_workers ==
    LET n == Len(wtask)
        s == pool.sessions + 1
    IN /\ pool' = [pool EXCEPT !.is_running = TRUE, !.session = s, !.sessions = s,
                              !.workers = @ \cup ((n + 1)..(n + pool.max_workers))]
       /\ wtask' = wtask \o [i \in 1..pool.max_workers |-> NewWorker]

PoolStart_NoRunningTest ==
    /\ pcalls < MaxPoolCalls
    /\ stopc.pc = "none"
    /\ pcalls' = pcalls + 1
    /\ spawn_workers
    /\ UNCHANGED <<now, subm, monVars, hsnap, WORKFLOW_ENGINE_AVAILABLE, extVars, schedVars, retryVars, defn, use_db, events, wf, tasks, worker, starts,
                   started, requeued, cancelVars, stopc>>

\* WorkerPool.start.  The calls on the pool are made in sequence: a call is
\* made when the one before it has returned
PoolStart ==
    /\ pcalls < MaxPoolCalls
    /\ stopc.pc = "none"
    /\ pcalls' = pcalls + 1
    /\ IF pool.is_running
       THEN UNCHANGED <<pool, wtask>>
       ELSE spawn_workers
    /\ UNCHANGED <<now, subm, monVars, hsnap, WORKFLOW_ENGINE_AVAILABLE, extVars, schedVars, retryVars, defn, use_db, events, wf, tasks, worker, starts,
                   started, requeued, cancelVars, stopc>>

\* WorkerPool.stop up to its first await
PoolStopBegin ==
    /\ pcalls < MaxPoolCalls
    /\ stopc.pc = "none"
    /\ pcalls' = pcalls + 1
    /\ IF ~pool.is_running
       THEN UNCHANGED <<pool, wtask, stopc>>
       ELSE /\ wtask' = [i \in DOMAIN wtask |->
                           IF i \in pool.workers /\ wtask[i].pc # "done"
                           THEN [wtask[i] EXCEPT !.cancel = TRUE] ELSE wtask[i]]
            /\ IF pool.workers # {}
               THEN /\ stopc' = [pc |-> "gather", waits |-> pool.workers]
                    /\ pool' = [pool EXCEPT !.is_running = FALSE]
               ELSE IF pool.session # 0
               THEN /\ stopc' = [pc |-> "close", waits |-> {}]
                    /\ pool' = [pool EXCEPT !.is_running = FALSE, !.closed = @ \cup {pool.session}]
               ELSE /\ stopc' = NoStop
                    /\ pool' = [pool EXCEPT !.is_running = FALSE, !.workers = {}]
    /\ UNCHANGED <<now, subm, monVars, hsnap, WORKFLOW_ENGINE_AVAILABLE, extVars, schedVars, retryVars, defn, use_db, events, wf, tasks, worker, starts,
                   started, requeued, cancelVars>>

\* stop resumes from gather once every task it gathered is done
PoolStopGathered ==
    /\ stopc.pc = "gather"
    /\ \A i \in stopc.waits : wtask[i].pc = "done"
    /\ IF pool.session # 0
       THEN /\ stopc' = [pc |-> "close", waits |-> {}]
            /\ pool' = [pool EXCEPT !.closed = @ \cup {pool.session}]
       ELSE /\ stopc' = NoStop
            /\ pool' = [pool EXCEPT !.workers = {}]
    /\ UNCHANGED <<now, subm, monVars, hsnap, WORKFLOW_ENGINE_AVAILABLE, extVars, schedVars, retryVars, defn, use_db, events, wf, tasks, worker, starts,
                   started, requeued, cancelVars, wtask, pcalls>>

\* stop resumes from session.close(): self.session = None, self.workers.clear()
PoolStopClosed ==
    /\ stopc.pc = "close"
    /\ stopc' = NoStop
    /\ pool' = [pool EXCEPT !.session = 0, !.workers = {}]
    /\ UNCHANGED <<now, subm, monVars, hsnap, WORKFLOW_ENGINE_AVAILABLE, extVars, schedVars, retryVars, defn, use_db, events, wf, tasks, worker, starts,
                   started, requeued, cancelVars, wtask, pcalls>>

\* the event loop runs callbacks in the order they were scheduled: the wake-up
\* of a cancelled task precedes every step scheduled after worker.cancel()
CancelPending == \E i \in DOMAIN wtask : wtask[i].cancel

\* CancelledError is raised at the await the worker is suspended at and leaves
\* _worker_loop through "except asyncio.CancelledError: break"
PoolCancelDelivered(i) ==
    /\ wtask[i].cancel
    /\ wtask' = [wtask EXCEPT ![i] = [pc |-> "done", cancel |-> FALSE, holds |-> {}, sess |-> 0]]
    /\ UNCHANGED <<now, subm, monVars, hsnap, WORKFLOW_ENGINE_AVAILABLE, extVars, schedVars, retryVars, defn, use_db, events, wf, tasks, worker, starts,
                   started, requeued, cancelVars, pool, stopc, pcalls>>

\* one turn of _worker_loop: the loop test, dequeue, and _execute_task up to the
\* await inside _call_agent (which raises at once when self.session is None)
PoolWorkerLoop(i) ==
    /\ wtask[i].pc = "loop"
    /\ ~CancelPending
    /\ IF ~pool.is_running
       THEN /\ wtask' = [wtask EXCEPT ![i].pc = "done"]
            /\ UNCHANGED <<heap, delivered, out>>
       ELSE LET d == dequeue(heap, PoolAgent) IN
            /\ d.task.eid # 0
            /\ heap' = d.heap
            /\ out' = Append(out, [e |-> d.task, filt |-> PoolAgent])
            /\ delivered' = [delivered EXCEPT ![d.task.eid] = @ + 1]
            /\ IF pool.session = 0
               THEN UNCHANGED wtask
               ELSE wtask' = [wtask EXCEPT ![i].pc = "call",
                                           ![i].holds = @ \cup {d.task.task_meta.task_id},
                                           ![i].sess = pool.session]
    /\ UNCHANGED <<now, subm, monVars, hsnap, WORKFLOW_ENGINE_AVAILABLE, extVars, events, ert, sched_r, nextEid, enqPending, retryVars, defn, use_db, wf, tasks,
                   worker, starts, started, requeued, cancelVars, pool, stopc, pcalls>>

\* the agent call returns or raises: _execute_task ends, back to the loop test
PoolWorkerReturn(i) ==
    /\ wtask[i].pc = "call"
    /\ ~CancelPending
    /\ wtask' = [wtask EXCEPT ![i] = NewWorker]
    /\ UNCHANGED <<now, subm, monVars, hsnap, WORKFLOW_ENGINE_AVAILABLE, extVars, schedVars, retryVars, defn, use_db, events, wf, tasks, worker, starts,
                   started, requeued, cancelVars, pool, stopc, pcalls>>

NextPool ==
    \/ PoolStart
    \/ PoolStopBegin
    \/ PoolStopGathered
    \/ PoolStopClosed
    \/ \E i \in DOMAIN wtask : PoolCancelDelivered(i)
    \/ \E i \in DOMAIN wtask : PoolWorkerLoop(i)
    \/ \E i \in DOMAIN wtask : PoolWorkerReturn(i)

SpecPool == InitPool /\ [][NextPool]_vars

----------------------------------------------------------------------------
(* The submission layer: POST /workflows/dsl validates the definition and    *)
(* hands it to init_workflow.                                                *)

\* the definitions a client may post: two tasks, each naming an agent that has
\* a pool or not, an action its agent offers or not, and a depends_on list
SubmitAgents == {"eda_agent", "ghost_agent"}
SubmitActions == {"analyze", "no_such_action"}
SubmitDeps == {<<>>, <<"A">>, <<"B">>, <<"C">>, <<"A", "B">>}
SubmitTasks ==
    {[agent |-> a, action |-> x, depends_on |-> dl] :
        a \in SubmitAgents, x \in SubmitActions, dl \in SubmitDeps}
Submissions ==
    {[ids |-> <<"A", "B">>, task |-> [A |-> ta, B |-> tb]] : ta, tb \in SubmitTasks}

\* dfs(node) of _check_circular_dependencies: raised is the ValueError
RECURSIVE dfs(_, _, _, _)
RECURSIVE dfs_neighbors(_, _, _, _)
dfs(d, node, visited, rec_stack) ==
    IF node \in rec_stack THEN [raised |-> TRUE, visited |-> visited]
    ELSE IF node \in visited THEN [raised |-> FALSE, visited |-> visited]
    ELSE dfs_neighbors(d, IF IsIn(node, d.ids) THEN d.task[node].depends_on ELSE <<>>,
                       visited \cup {node}, rec_stack \cup {node})

dfs_neighbors(d, neighbors, visited, rec_stack) ==
    IF neighbors = <<>> THEN [raised |-> FALSE, visited |-> visited]
    ELSE LET r == dfs(d, Head(neighbors), visited, rec_stack)
         IN IF r.raised THEN r ELSE dfs_neighbors(d, Tail(neighbors), r.visited, rec_stack)

RECURSIVE dfs_all(_, _, _)
dfs_all(d, ids, visited) ==
    IF ids = <<>> THEN FALSE
    ELSE IF Head(ids) \in visited THEN dfs_all(d, Tail(ids), visited)
    ELSE LET r == dfs(d, Head(ids), visited, {})
         IN r.raised \/ dfs_all(d, Tail(ids), r.visited)

\* _check_circular_dependencies(tasks): TRUE when it raises
check_circular_dependencies(d) == dfs_all(d, d.ids, {})

\* _validate_workflow_dsl: the "valid" field of its result
validate_workflow_dsl(d) ==
    LET errors ==
            \/ Len(d.ids) = 0
            \/ \E i, j \in 1..Len(d.ids) : i < j /\ d.ids[i] = d.ids[j]
            \/ \E i \in 1..Len(d.ids) :
                  \E k \in 1..Len(d.task[d.ids[i]].depends_on) :
                      ~IsIn(d.task[d.ids[i]].depends_on[k], d.ids)
    IN ~errors /\ ~check_circular_dependencies(d)

InitSubmit ==
    /\ now = 0
    /\ SchedIdle
    /\ RetryIdle
    /\ defn = NoDef
    /\ use_db \in BOOLEAN
    /\ wf = NoWf
    /\ tasks = [id \in TaskIds |-> NoDoc]
    /\ worker = [a \in Agents |-> IdleWorker]
    /\ starts = 0
    /\ started = [id \in TaskIds |-> 0]
    /\ requeued = [id \in TaskIds |-> 0]
    /\ events = NoEvents
    /\ CancelIdle
    /\ PoolIdle
    /\ MonIdle
    /\ hsnap = NoSnap
    /\ WORKFLOW_ENGINE_AVAILABLE = TRUE
    /\ ExtIdle
    /\ \E d \in Submissions : subm = [d |-> d, res |-> "none"]

\* execute_dsl_workflow up to the return of init_workflow: a definition that
\* fails validation is answered 400; no other test stands before init_workflow,
\* which materializes whatever it is given
RouterSubmit ==
    /\ subm.res = "none"
    /\ IF validate_workflow_dsl(subm.d)
       THEN InitWorkflow(subm.d)
       ELSE /\ subm' = [subm EXCEPT !.res = "rejected"]
            /\ UNCHANGED <<now, schedVars, retryVars, defn, use_db, events, wf, tasks, worker, starts,
                           started, requeued, cancelVars, poolVars, monVars, hsnap,
                       WORKFLOW_ENGINE_AVAILABLE, extVars>>

\* execute_dsl_workflow, lines 406-407: start_workflow on the new run
RouterStart ==
    /\ subm.d # NoDef
    /\ starts = 0
    /\ StartWorkflow

NextSubmit ==
    \/ RouterSubmit
    \/ RouterStart

SpecSubmit == InitSubmit /\ [][NextSubmit]_vars

----------------------------------------------------------------------------
(* The SLA monitor of the dashboard backend over the task documents of a run. *)
(* The coordinator stamps created_at when it creates the documents and        *)
(* queued_at when it enqueues a task; the monitor scans every 30 seconds.     *)

\* config.orchestrator.scheduling.sla_task_complete_s, in clock steps of the model
TaskSla == 1

\* stale_tasks: .to_list(100)
ScanLimit == 100

InitMon ==
    /\ now = 0
    /\ SchedIdle
    /\ RetryIdle
    /\ EngineIdle
    /\ PoolIdle
    /\ hsnap = NoSnap
    /\ WORKFLOW_ENGINE_AVAILABLE = TRUE
    /\ ExtIdle
    /\ subm = NoSubm
    /\ mtasks = [id \in TaskIds |-> [status |-> "pending", created_at |-> 0, queued_at |-> 0]]
    /\ lastScan = {}

MonTick ==
    /\ now < MaxMonTime
    /\ now' = now + 1
    /\ UNCHANGED <<schedVars, retryVars, engVars>>

\* _enqueue_task: status QUEUED, queued_at = utcnow()
MonEnqueued(id) ==
    /\ mtasks[id].status = "pending"
    /\ mtasks' = [mtasks EXCEPT ![id].status = "queued", ![id].queued_at = now]
    /\ UNCHANGED <<now, schedVars, retryVars, defn, use_db, events, wf, tasks, worker, starts,
                   started, requeued, cancelVars, poolVars, hsnap, WORKFLOW_ENGINE_AVAILABLE, extVars, subm, lastScan>>

\* the task is dequeued and started: QUEUED -> RUNNING
MonStarted(id) ==
    /\ mtasks[id].status = "queued"
    /\ mtasks' = [mtasks EXCEPT ![id].status = "running"]
    /\ UNCHANGED <<now, schedVars, retryVars, defn, use_db, events, wf, tasks, worker, starts,
                   started, requeued, cancelVars, poolVars, hsnap, WORKFLOW_ENGINE_AVAILABLE, extVars, subm, lastScan>>

\* handle_task_completion: RUNNING -> COMPLETED
MonCompleted(id) ==
    /\ mtasks[id].status = "running"
    /\ mtasks' = [mtasks EXCEPT ![id].status = "completed"]
    /\ UNCHANGED <<now, schedVars, retryVars, defn, use_db, events, wf, tasks, worker, starts,
                   started, requeued, cancelVars, poolVars, hsnap, WORKFLOW_ENGINE_AVAILABLE, extVars, subm, lastScan>>

\* the find of sla_monitor: QUEUED or RUNNING and created_at < now - SLA
stale_tasks(t, current_time) ==
    {id \in TaskIds : /\ t[id].status \in {"queued", "running"}
                      /\ t[id].created_at < current_time - TaskSla}

\* one pass of the stale-task check of sla_monitor: an sla_violation event for
\* each task found (the model has fewer than ScanLimit tasks)
SlaScan ==
    /\ Cardinality(stale_tasks(mtasks, now)) <= ScanLimit
    /\ lastScan' = stale_tasks(mtasks, now)
    /\ UNCHANGED <<now, schedVars, retryVars, defn, use_db, events, wf, tasks, worker, starts,
                   started, requeued, cancelVars, poolVars, hsnap, WORKFLOW_ENGINE_AVAILABLE, extVars, subm, mtasks>>

NextMon ==
    \/ MonTick
    \/ \E id \in TaskIds : MonEnqueued(id)
    \/ \E id \in TaskIds : MonStarted(id)
    \/ \E id \in TaskIds : MonCompleted(id)
    \/ SlaScan

SpecMon == InitMon /\ [][NextMon]_vars

----------------------------------------------------------------------------
(* The task documents under the coordinator's updates and the dashboard's     *)
(* PUT /tasks/{task_id}/retry                                                 *)

\* config.orchestrator.retry.max_retries of the dashboard
DashMaxRetries == 2

\* should_retry_task(task_id, error): the retry count is below max_retries
should_retry_task(counts, id) == counts[id] < DashMaxRetries

\* handle_task_completion(success = False): RUNNING -> FAILED
MonFailed(id) ==
    /\ mtasks[id].status = "running"
    /\ mtasks' = [mtasks EXCEPT ![id].status = "failed"]
    /\ UNCHANGED <<now, schedVars, retryVars, engCore, poolVars, hsnap, subm,
                   WORKFLOW_ENGINE_AVAILABLE, lastScan, extVars>>

\* retry_task(task_id): the task document exists and should_retry_task holds;
\* the count is incremented and the status set to QUEUED whatever it was
retry_task(id) ==
    /\ should_retry_task(task_retry_counts, id)
    /\ task_retry_counts' = [task_retry_counts EXCEPT ![id] = @ + 1]
    /\ mtasks' = [mtasks EXCEPT ![id].status = "queued"]
    /\ UNCHANGED <<now, schedVars, retryVars, engCore, poolVars, hsnap, subm,
                   WORKFLOW_ENGINE_AVAILABLE, lastScan, extNotDash>>

NextDash ==
    \/ \E id \in TaskIds : MonEnqueued(id)
    \/ \E id \in TaskIds : MonStarted(id)
    \/ \E id \in TaskIds : MonCompleted(id)
    \/ \E id \in TaskIds : MonFailed(id)
    \/ \E id \in TaskIds : retry_task(id)

SpecDash == InitMon /\ [][NextDash]_vars

----------------------------------------------------------------------------
(* The engine when every agent call answers 200 and start_workflow is called *)
(* once: every worker keeps polling and every agent call returns.  No task   *)
(* fails, so the delay queue stays empty and the retry poll changes nothing. *)

StartOnce == starts = 0 /\ StartWorkflow

NextLive ==
    \/ \E d \in Definitions : InitWorkflow(d)
    \/ StartOnce
    \/ \E a \in Agents : WorkerDequeue(a)
    \/ \E a \in Agents : WorkerResponse(a, 200)
    \/ Tick

\* _worker_loop keeps polling: a worker that can dequeue does so; the agent
\* call is bounded by task_timeout: no worker stays inside it for ever
SpecLive ==
    /\ Init
    /\ [][NextLive]_vars
    /\ \A a \in Agents : WF_vars(WorkerDequeue(a))
    /\ \A a \in Agents : []<>(worker[a].pc = "idle")

----------------------------------------------------------------------------
(* Completion handlers running concurrently.  Each worker task awaits its own *)
(* TASK_SUCCESS callback, and handle_task_completion suspends at every        *)
(* database call: the handlers of two workers interleave between the find of  *)
(* _process_dependent_tasks and the update of each document it returned.      *)

InitJoin == Init /\ use_db

\* the agent answered 200: handle_task_completion up to the find of
\* _process_dependent_tasks
CompletionBegin(a) ==
    /\ worker[a].pc = "calling"
    /\ LET task_meta == worker[a].task_meta
           id == task_meta.task_id
           ids == dependent_tasks(tasks, defn.ids, id)
       IN /\ ert' = update_ert(sched_r, ert, a, task_meta.action, now - worker[a].started_at)
          /\ events' = [events EXCEPT ![id].success = @ + 1]
          /\ tasks' = [tasks EXCEPT ![id].status = "completed"]
          /\ wf' = [wf EXCEPT !.completed_tasks = @ + 1]
          /\ hsnap' = [hsnap EXCEPT ![a] = [i \in 1..Len(ids) |->
                                              [id |-> ids[i], in_degree |-> tasks[ids[i]].in_degree]]]
    /\ worker' = [worker EXCEPT ![a].pc = "handling"]
    /\ lastSched' = NoSched
    /\ UNCHANGED <<now, heap, sched_r, nextEid, enqPending, delivered, out,
                   cfg, retry_r, retry_q, held, schedCount,
                   defn, use_db, starts, started, requeued, cancelVars,
                   poolVars, monVars, subm, WORKFLOW_ENGINE_AVAILABLE, extVars>>

\* one turn of the loop of _process_dependent_tasks: in_degree is set to the
\* value read by the find minus one, and the task is enqueued when that is 0
CompletionStep(a) ==
    /\ worker[a].pc = "handling"
    /\ hsnap[a] # <<>>
    /\ LET c == ProcessDependents(Coord, <<Head(hsnap[a])>>)
       IN /\ tasks' = c.tasks
          /\ heap' = c.heap
          /\ nextEid' = c.eid
    /\ hsnap' = [hsnap EXCEPT ![a] = Tail(@)]
    /\ UNCHANGED <<now, ert, sched_r, enqPending, delivered, out, retryVars,
                   defn, use_db, wf, worker, starts, started, requeued, events, cancelVars,
                   poolVars, monVars, subm, WORKFLOW_ENGINE_AVAILABLE, extVars>>

\* _check_workflow_completion, and the worker is back in its loop
CompletionEnd(a) ==
    /\ worker[a].pc = "handling"
    /\ hsnap[a] = <<>>
    /\ wf' = check_workflow_completion(Coord).wf
    /\ worker' = [worker EXCEPT ![a] = IdleWorker]
    /\ UNCHANGED <<now, schedVars, retryVars, defn, use_db, tasks, starts, started, requeued,
                   events, cancelVars, sideVars>>

NextJoin ==
    \/ \E d \in Definitions : InitWorkflow(d)
    \/ StartOnce
    \/ \E a \in Agents : WorkerDequeue(a)
    \/ \E a \in Agents : CompletionBegin(a)
    \/ \E a \in Agents : CompletionStep(a)
    \/ \E a \in Agents : CompletionEnd(a)

SpecJoin == InitJoin /\ [][NextJoin]_vars

----------------------------------------------------------------------------
(* The engine under an at-least-once event bus: a TASK_SUCCESS event that the *)
(* coordinator has handled may be delivered to it once more.                  *)

MaxRedeliver == 1

\* the second delivery of TASK_SUCCESS(run_id, task_id): handle_task_completion
\* runs again with success = True
Redeliver(id) ==
    /\ redelivered < MaxRedeliver
    /\ events[id].success >= 1
    /\ LET c == on_task_success(Coord, id)
       IN /\ wf' = c.wf
          /\ tasks' = c.tasks
          /\ heap' = c.heap
          /\ nextEid' = c.eid
    /\ redelivered' = redelivered + 1
    /\ lastSched' = NoSched
    /\ UNCHANGED <<now, ert, sched_r, enqPending, delivered, out,
                   cfg, retry_r, retry_q, held, schedCount,
                   defn, use_db, worker, starts, started, requeued, events, cancelVars,
                   poolVars, monVars, hsnap, subm, WORKFLOW_ENGINE_AVAILABLE, extNotBus>>

NextBus ==
    \/ \E d \in Definitions : InitWorkflow(d)
    \/ StartOnce
    \/ \E a \in Agents : WorkerDequeue(a)
    \/ \E a \in Agents : WorkerResponse(a, 200)
    \/ \E id \in TaskIds : Redeliver(id)

SpecBus == Init /\ [][NextBus]_vars

----------------------------------------------------------------------------
(* init_workflow calls on one WorkflowManager with in-memory storage: the     *)
(* run_id is made from the wall clock in whole milliseconds.                  *)

MaxInitCalls == 3

\* len(workflow_def["tasks"]) of the definitions submitted
TaskCounts == {1, 2, 3}

\* f"run_{int(datetime.now().timestamp() * 1000)}": the clock cut to milliseconds
make_run_id(clock) == clock \div 2

WallclockTick ==
    /\ wallclock < MaxWallclock
    /\ wallclock' = wallclock + 1
    /\ UNCHANGED <<coreVars, extNotId, run_ids, in_memory_workflows>>

\* init_workflow(workflow_def) with db unavailable: returns run_id
InitWorkflowCall(total_tasks) ==
    /\ Len(run_ids) < MaxInitCalls
    /\ LET run_id == make_run_id(wallclock)
           workflow_doc == [call |-> Len(run_ids) + 1, total_tasks |-> total_tasks]
       IN /\ in_memory_workflows' = [in_memory_workflows EXCEPT ![run_id] = workflow_doc]
          /\ run_ids' = Append(run_ids, run_id)
    /\ UNCHANGED <<coreVars, extNotId, wallclock>>

NextIds ==
    \/ WallclockTick
    \/ \E n \in TaskCounts : InitWorkflowCall(n)

\* a WorkflowManager without a database
InitIds == Init /\ ~use_db

SpecIds == InitIds /\ [][NextIds]_vars

----------------------------------------------------------------------------
(* The dashboard's POST /runs, PUT /runs/{run_id}/complete and                *)
(* PUT /runs/{run_id}/fail as concurrent requests.  Each handler suspends at  *)
(* every await; OrchestratorState takes its lock inside each method only.     *)

\* config.orchestrator.max_concurrent_workflows
max_concurrent_workflows == 1

\* OrchestratorState.can_start_workflow
can_start_workflow(n) == n < max_concurrent_workflows

\* create_run up to "await db.runs.insert_one": the concurrency check
CreateCheck(w) ==
    /\ cpc[w] = "none"
    /\ cpc' = [cpc EXCEPT ![w] = IF can_start_workflow(running_workflows)
                                  THEN "checked" ELSE "rejected"]
    /\ UNCHANGED <<coreVars, extNotCap, running_workflows, druns, epc>>

\* db.runs.insert_one(run_doc): status QUEUED
CreateInsert(w) ==
    /\ cpc[w] = "checked"
    /\ druns' = [druns EXCEPT ![w] = "queued"]
    /\ cpc' = [cpc EXCEPT ![w] = "inserted"]
    /\ UNCHANGED <<coreVars, extNotCap, running_workflows, epc>>

\* orchestrator_state.start_workflow(workflow_id)
CreateCount(w) ==
    /\ cpc[w] = "inserted"
    /\ running_workflows' = running_workflows + 1
    /\ cpc' = [cpc EXCEPT ![w] = "counted"]
    /\ UNCHANGED <<coreVars, extNotCap, druns, epc>>

\* db.runs.update_one: status RUNNING; the request is answered
CreateRunning(w) ==
    /\ cpc[w] = "counted"
    /\ druns' = [druns EXCEPT ![w] = IF @ = "none" THEN @ ELSE "running"]
    /\ cpc' = [cpc EXCEPT ![w] = "done"]
    /\ UNCHANGED <<coreVars, extNotCap, running_workflows, epc>>

\* complete_run / fail_run up to orchestrator_state.complete_workflow:
\* update_one sets the status of the run, if there is one
EndUpdate(w, status) ==
    /\ epc[w] = "none"
    /\ druns' = [druns EXCEPT ![w] = IF @ = "none" THEN @ ELSE status]
    /\ epc' = [epc EXCEPT ![w] = "updated"]
    /\ UNCHANGED <<coreVars, extNotCap, running_workflows, cpc>>

\* orchestrator_state.complete_workflow(run_id): max(0, running_workflows - 1)
EndCount(w) ==
    /\ epc[w] = "updated"
    /\ running_workflows' = IF running_workflows - 1 > 0 THEN running_workflows - 1 ELSE 0
    /\ epc' = [epc EXCEPT ![w] = "done"]
    /\ UNCHANGED <<coreVars, extNotCap, druns, cpc>>

NextCap ==
    \/ \E w \in WorkflowIds : CreateCheck(w)
    \/ \E w \in WorkflowIds : CreateInsert(w)
    \/ \E w \in WorkflowIds : CreateCount(w)
    \/ \E w \in WorkflowIds : CreateRunning(w)
    \/ \E w \in WorkflowIds, status \in {"completed", "failed"} : EndUpdate(w, status)
    \/ \E w \in WorkflowIds : EndCount(w)

InitCap ==
    /\ now = 0
    /\ SchedIdle
    /\ RetryIdle
    /\ EngineIdle
    /\ SideIdle

SpecCap == InitCap /\ [][NextCap]_vars

----------------------------------------------------------------------------
(* ConcurrencyGuard under callers that acquire, release and wait for a slot *)

\* ConcurrencyGuard(max_concurrent = 1)
max_concurrent == 1

MaxGuardTime == 3

\* the timeouts callers pass to wait_for_slot
Timeouts == {1, 2}

GuardTick ==
    /\ now < MaxGuardTime
    /\ now' = now + 1
    /\ UNCHANGED <<schedVars, retryVars, engVars>>

\* acquire(): [ok, count]
acquire(count) ==
    IF count < max_concurrent THEN [ok |-> TRUE, count |-> count + 1]
    ELSE [ok |-> FALSE, count |-> count]

\* release(): the count left
release(count) == IF count > 0 THEN count - 1 ELSE count

GuardAcquire(p) ==
    /\ gcall[p].pc = "idle"
    /\ ~gcall[p].holds
    /\ LET a == acquire(current_count)
       IN /\ current_count' = a.count
          /\ gcall' = [gcall EXCEPT ![p].holds = a.ok]
    /\ UNCHANGED <<coreVars, extNotGuard, waiting_queue>>

\* release() by a holder; nothing is put in waiting_queue
GuardRelease(p) ==
    /\ gcall[p].holds
    /\ current_count' = release(current_count)
    /\ gcall' = [q \in Callers |->
                   IF q = p THEN [gcall[q] EXCEPT !.holds = FALSE]
                   ELSE IF /\ gcall[q].pc = "waiting"
                           /\ now < gcall[q].deadline
                           /\ release(current_count) < max_concurrent
                        THEN [gcall[q] EXCEPT !.freed = TRUE]
                        ELSE gcall[q]]
    /\ UNCHANGED <<coreVars, extNotGuard, waiting_queue>>

\* wait_for_slot(timeout) up to "await asyncio.wait_for(self.waiting_queue.get(), timeout)"
WaitBegin(p, timeout) ==
    /\ gcall[p].pc = "idle"
    /\ ~gcall[p].holds
    /\ gcall' = [gcall EXCEPT ![p].pc = "waiting", ![p].deadline = now + timeout,
                              ![p].freed = FALSE]
    /\ UNCHANGED <<coreVars, extNotGuard, current_count, waiting_queue>>

\* wait_for_slot resumes: with an item of waiting_queue (then acquire), or with
\* asyncio.TimeoutError when the timeout has passed (return False)
WaitResume(p) ==
    /\ gcall[p].pc = "waiting"
    /\ IF waiting_queue > 0
       THEN LET a == acquire(current_count)
            IN /\ waiting_queue' = waiting_queue - 1
               /\ current_count' = a.count
               /\ gcall' = [gcall EXCEPT ![p].pc = IF a.ok THEN "true" ELSE "false",
                                         ![p].holds = a.ok]
       ELSE /\ now >= gcall[p].deadline
            /\ gcall' = [gcall EXCEPT ![p].pc = "false"]
            /\ UNCHANGED <<current_count, waiting_queue>>
    /\ UNCHANGED <<coreVars, extNotGuard>>

NextGuard ==
    \/ GuardTick
    \/ \E p \in Callers : GuardAcquire(p)
    \/ \E p \in Callers : GuardRelease(p)
    \/ \E p \in Callers, timeout \in Timeouts : WaitBegin(p, timeout)
    \/ \E p \in Callers : WaitResume(p)

SpecGuard == InitCap /\ [][NextGuard]_vars

----------------------------------------------------------------------------
(* TranslationQueue (in-memory) with its TranslationWorker and cleanup_expired *)

MaxTqTime == 3

\* TranslationQueue.timeout_seconds, in ticks
TqTimeout == 1

\* TranslationWorker.max_retries
TqMaxRetries == 1

TqTick ==
    /\ now < MaxTqTime
    /\ now' = now + 1
    /\ UNCHANGED <<schedVars, retryVars, engVars>>

\* update_status: the counter it raises for the status written
bump_stats(st, status) ==
    IF status = "done" THEN [st EXCEPT !.translations_completed = @ + 1]
    ELSE IF status = "error" THEN [st EXCEPT !.translations_failed = @ + 1]
    ELSE IF status = "timeout" THEN [st EXCEPT !.translations_timed_out = @ + 1]
    ELSE IF status = "needs_human" THEN [st EXCEPT !.translations_needs_human = @ + 1]
    ELSE st

\* update_status(token, status) on the token table
update_status(toks, token, status) ==
    IF toks[token].status # "none"
    THEN [toks EXCEPT ![token].status = status]
    ELSE toks

TqEnqueue(token) ==
    /\ in_memory_tokens[token].status = "none"
    /\ in_memory_tokens' = [in_memory_tokens EXCEPT
                              ![token] = [status |-> "queued", created_at |-> now, retries |-> 0]]
    /\ in_memory_queue' = Append(in_memory_queue, token)
    /\ tq_stats' = [tq_stats EXCEPT !.translations_queued = @ + 1]
    /\ UNCHANGED <<coreVars, extNotTq, tworker>>

\* the tokens cleanup_expired collects: QUEUED or PROCESSING and created
\* before now - timeout_seconds
expired_tokens ==
    {t \in Tokens : /\ in_memory_tokens[t].status \in {"queued", "processing"}
                    /\ in_memory_tokens[t].created_at < now - TqTimeout}

cleanup_expired ==
    /\ expired_tokens # {}
    /\ in_memory_tokens' = [t \in Tokens |->
                              IF t \in expired_tokens
                              THEN [in_memory_tokens[t] EXCEPT !.status = "timeout"]
                              ELSE in_memory_tokens[t]]
    /\ tq_stats' = [tq_stats EXCEPT
                      !.translations_timed_out = @ + Cardinality(expired_tokens)]
    /\ UNCHANGED <<coreVars, extNotTq, in_memory_queue, tworker>>

\* _worker_loop: token = await self.queue.pop_next()
pop_next ==
    /\ tworker.pc = "idle"
    /\ in_memory_queue # <<>>
    /\ tworker' = [tworker EXCEPT !.pc = "popped", !.token = Head(in_memory_queue)]
    /\ in_memory_queue' = Tail(in_memory_queue)
    /\ UNCHANGED <<coreVars, extNotTq, in_memory_tokens, tq_stats>>

\* _process_translation up to the call of translate_strict
ProcessBegin ==
    /\ tworker.pc = "popped"
    /\ in_memory_tokens' = update_status(in_memory_tokens, tworker.token, "processing")
    /\ tworker' = [tworker EXCEPT !.pc = "translating",
                                  !.retries = in_memory_tokens[tworker.token].retries]
    /\ UNCHANGED <<coreVars, extNotTq, in_memory_queue, tq_stats>>

Outcomes == {"dsl", "needs_human", "exception"}

\* _process_translation after translate_strict and _validate_dsl: DONE,
\* NEEDS_HUMAN, _schedule_retry, or ERROR
ProcessEnd(outcome) ==
    /\ tworker.pc = "translating"
    /\ LET t == tworker.token
           retry == outcome = "exception" /\ tworker.retries < TqMaxRetries
           status == IF outcome = "dsl" THEN "done"
                     ELSE IF outcome = "needs_human" THEN "needs_human"
                     ELSE IF retry THEN "queued"
                     ELSE "error"
           counted == IF retry
                      THEN [in_memory_tokens EXCEPT ![t].retries = tworker.retries + 1]
                      ELSE in_memory_tokens
       IN /\ in_memory_tokens' = update_status(counted, t, status)
          /\ in_memory_queue' = IF retry THEN Append(in_memory_queue, t) ELSE in_memory_queue
          /\ tq_stats' = bump_stats(tq_stats, status)
    /\ tworker' = [tworker EXCEPT !.pc = "idle"]
    /\ UNCHANGED <<coreVars, extNotTq>>

NextTq ==
    \/ TqTick
    \/ \E token \in Tokens : TqEnqueue(token)
    \/ cleanup_expired
    \/ pop_next
    \/ ProcessBegin
    \/ \E outcome \in Outcomes : ProcessEnd(outcome)

SpecTq == InitCap /\ [][NextTq]_vars

----------------------------------------------------------------------------
(* Properties of the scheduler *)

HeapIdx == 1..Len(heap)
OutIdx == 1..Len(out)

\* the order the claims speak of: (score asc, enqueue_time asc)
Precedes(a, b) ==
    \/ RLess(a.score, b.score)
    \/ a.score = b.score /\ a.enqueue_time < b.enqueue_time

\* C4: under every interleaving of enqueue and dequeue calls, filtered or not,
\* a queue entry is returned by at most one dequeue call, and an entry that has
\* been returned is no longer in the queue.
C4_AtMostOneDequeue ==
    \A i \in Eids :
        /\ delivered[i] <= 1
        /\ delivered[i] = 1 => \A k \in HeapIdx : heap[k].eid # i

\* two entries have been handed out while an enqueue is between its score
\* computation and its push and another entry is still queued
C4_Witness ==
    /\ \E i, j \in Eids : i # j /\ delivered[i] = 1 /\ delivered[j] = 1
    /\ \E th \in EnqThreads : enqPending[th].eid # 0

\* C6: with no enqueue in between, the tasks returned by unfiltered dequeues
\* come out in ascending score order, equal scores in ascending enqueue_time order.
C6_UnfilteredAscending ==
    \A i, j \in OutIdx :
        (i < j /\ out[i].filt = NoAgent /\ out[j].filt = NoAgent)
            => ~Precedes(out[j].e, out[i].e)

\* three unfiltered dequeues in a row: a score tie resolved by enqueue time, then a
\* worse score
C6_Witness ==
    /\ Len(out) = 3
    /\ \A i \in OutIdx : out[i].filt = NoAgent
    /\ out[1].e.score = out[2].e.score
    /\ out[1].e.enqueue_time < out[2].e.enqueue_time
    /\ RLess(out[2].e.score, out[3].e.score)

\* C7: dequeue(agent_filter=a) returns a queued task of agent a that no other queued
\* task of agent a precedes (lower score, or equal score and earlier enqueue time),
\* and returns nothing exactly when no queued task has agent a.
C7_FilteredDequeueBest ==
    [][\A f \in Agents :
         DequeueCall(f) =>
           LET M == {k \in HeapIdx : heap[k].task_meta.agent = f} IN
             IF M = {} THEN delivered' = delivered
             ELSE \E k \in M :
                    /\ delivered' = [delivered EXCEPT ![heap[k].eid] = @ + 1]
                    /\ \A m \in M : ~Precedes(heap[m], heap[k])]_vars

\* a filtered dequeue has just returned an eda_agent task although a task of another
\* agent with a better score was queued, and a second eda_agent task of the same score
\* but later enqueue time is still queued
C7_Witness ==
    /\ out # <<>>
    /\ out[Len(out)].filt = "eda_agent"
    /\ \E k \in HeapIdx :
         /\ heap[k].task_meta.agent = "ml_agent"
         /\ Precedes(heap[k], out[Len(out)].e)
    /\ \E k \in HeapIdx :
         /\ heap[k].task_meta.agent = "eda_agent"
         /\ heap[k].score = out[Len(out)].e.score
         /\ heap[k].enqueue_time > out[Len(out)].e.enqueue_time

\* same agent and action, same runtime estimate, no deadline
SameClass(a, b) ==
    /\ a.task_meta.agent = b.task_meta.agent
    /\ a.task_meta.action = b.task_meta.action
    /\ a.ert_used = b.ert_used
    /\ a.task_meta.deadline_ts = NoDeadline
    /\ b.task_meta.deadline_ts = NoDeadline

\* C8: among tasks of one agent and action with equal ERT and no deadline that were
\* all queued before the first of them was dequeued, none is dequeued while a task
\* of higher user_priority is still waiting.
C8_HigherPriorityFirst ==
    /\ \A i, j \in OutIdx :
         (i < j /\ SameClass(out[i].e, out[j].e))
            => out[i].e.task_meta.user_priority >= out[j].e.task_meta.user_priority
    /\ \A i \in OutIdx, k \in HeapIdx :
         SameClass(out[i].e, heap[k])
            => out[i].e.task_meta.user_priority >= heap[k].task_meta.user_priority

\* a 0.9 task was dequeued before a 0.1 task of the same agent that had been
\* enqueued earlier
C8_Witness ==
    /\ Len(out) >= 2
    /\ SameClass(out[1].e, out[2].e)
    /\ out[1].e.task_meta.user_priority = 9
    /\ out[2].e.task_meta.user_priority = 1
    /\ out[2].e.enqueue_time < out[1].e.enqueue_time

----------------------------------------------------------------------------
(* Properties of the retry tracker *)

\* C9: a schedule call on a task whose retry count n is below max_retries
\* returns true, leaves the task in the delay queue with due time
\* now + min(backoff_base * 2^n, backoff_max) and the retry count at n + 1;
\* that delay is at most backoff_max and at least the delay of every
\* smaller retry count.
C9_ScheduleBelowMax ==
    (lastSched.task_id \in TaskIds /\ lastSched.n < cfg.max_retries) =>
        LET id == lastSched.task_id
            n == lastSched.n
            delay == Min(cfg.backoff_base_s * Pow2(n), cfg.backoff_max_s)
        IN /\ lastSched.ret = TRUE
           /\ retry_q[id] = lastSched.at + delay
           /\ held[id].retries = n + 1
           /\ delay <= cfg.backoff_max_s
           /\ \A m \in 0..n : Min(cfg.backoff_base_s * Pow2(m), cfg.backoff_max_s) <= delay

\* C10: a schedule call on a task whose retry count is at least max_retries
\* returns false and changes neither the delay queue nor the task, and no
\* task has more than max_retries schedule calls that returned true.
C10_AbandonAtMax ==
    /\ [](\A id \in TaskIds : schedCount[id] <= cfg.max_retries)
    /\ [][\A id \in TaskIds, e \in Errors :
            (ScheduleCall(id, e) /\ held[id].retries >= cfg.max_retries) =>
                /\ lastSched'.ret = FALSE
                /\ retry_q' = retry_q
                /\ held' = held]_vars

C10_Witness ==
    /\ lastSched.task_id \in TaskIds
    /\ cfg.max_retries = MaxRetriesDefault
    /\ lastSched.n >= cfg.max_retries
    /\ lastSched.ret = FALSE
    /\ schedCount[lastSched.task_id] = cfg.max_retries
    /\ retry_q[lastSched.task_id] # NoDue

----------------------------------------------------------------------------
(* Properties of the engine *)

InHeap(id) == {k \in 1..Len(heap) : heap[k].task_meta.task_id = id}

Terminal == {"completed", "failed", "cancelled"}

C2_EventuallyCompleted ==
    (starts >= 1) ~> (/\ wf.status = "completed"
                      /\ wf.completed_tasks = wf.total_tasks
                      /\ wf.failed_tasks = 0)

\* C3: when a task has failed terminally the workflow has status FAILED and
\* every other task of the run is terminal (COMPLETED, FAILED or CANCELLED).
C3_TerminalFailureCascades ==
    \A t \in TaskIds :
        tasks[t].status = "failed" =>
            /\ wf.status = "failed"
            /\ \A u \in TaskIds \ {t} : tasks[u].status \in Terminal \cup {"none"}

\* C5: a task has at most one TASK_STARTED more than it has retry
\* re-enqueues, and at most one entry in the scheduler queue.
C5_NoDoubleStart ==
    \A id \in TaskIds :
        /\ started[id] <= 1 + requeued[id]
        /\ Cardinality(InHeap(id)) <= 1

C5_Witness ==
    /\ starts = 2
    /\ heap # <<>>
    /\ \E id \in TaskIds :
          /\ started[id] = 1
          /\ tasks[id].status = "retry"
          /\ schedCount[id] = 1
          /\ retry_q[id] = NoDue

----------------------------------------------------------------------------
(* Properties of the retry poll and of the retry decision *)

DueNow(id) == retry_q[id] # NoDue /\ retry_q[id] <= now

\* C11: a poll removes every delay-queue entry whose due time has passed and
\* puts its task back into the scheduler queue, once per scheduled retry.
C11_DueRetriesReEnqueued ==
    /\ [](\A id \in TaskIds : requeued[id] <= schedCount[id])
    /\ [][PollRetries =>
            \A id \in TaskIds :
                DueNow(id) =>
                    /\ retry_q'[id] = NoDue
                    /\ requeued'[id] = requeued[id] + 1
                    /\ \E k \in 1..Len(heap') : heap'[k].task_meta.task_id = id]_vars

\* C12: a task is in the delay queue only when the coordinator has set it to
\* RETRY, and an agent call that failed with a 4xx answer schedules no retry.
C12_RetryOnlyWhenDecided ==
    /\ [](\A id \in TaskIds : retry_q[id] # NoDue => tasks[id].status = "retry")
    /\ [][\A a \in Agents :
            WorkerResponse(a, 400) => (retry_q' = retry_q /\ schedCount' = schedCount)]_vars

----------------------------------------------------------------------------
(* Properties of cancellation *)

\* a task record marked cancelled, by cancel_workflow or by TASK_CANCELLED
TaskCancelled == {"CANCELLED", "cancelled"}

WfCancel == {"CANCELLING", "CANCELLED"}

\* C13: cancel_workflow on a workflow whose status is already terminal returns
\* false and changes neither the workflow record nor a task record nor the
\* cancellation set.
C13_CancelTerminalRejected ==
    [][(CancelWorkflow /\ wf.status \in WfTerminal) =>
            /\ lastCancel'.ret = FALSE
            /\ wf' = wf
            /\ tasks' = tasks
            /\ cancelled_runs' = cancelled_runs]_vars

\* C14: cancel_workflow on a workflow that is not terminal leaves every task
\* that was PENDING or QUEUED with status CANCELLED and in neither the scheduler
\* queue nor the delay queue.
C14_CancelDrainsPending ==
    [][(CancelWorkflow /\ wf.status \notin WfTerminal \cup {"none"}) =>
            \A id \in TaskIds :
                tasks[id].status \in {"pending", "queued"} =>
                    /\ tasks'[id].status \in TaskCancelled
                    /\ \A k \in 1..Len(heap') : heap'[k].task_meta.task_id # id
                    /\ retry_q'[id] = NoDue]_vars

\* C15: a worker that dequeues a task of a run that is in the cancellation set
\* emits TASK_CANCELLED for it, emits no TASK_STARTED and does not call the agent.
C15_CancelledRunNotStarted ==
    [][\A a \in Agents :
            (WorkerDequeue(a) /\ cancelled_runs) =>
                /\ started' = started
                /\ task_cancelled' # task_cancelled
                /\ worker'[a].pc # "calling"]_vars

\* C16: a cancel_workflow issued while a task is inside its agent call puts the
\* workflow in CANCELLING; when the call then returns 200 the task ends
\* CANCELLED, completed_tasks is unchanged, nothing is enqueued, and the
\* workflow is CANCELLED once no fenced call is outstanding.
C16_InFlightResultDiscarded ==
    [][/\ (CancelWorkflow /\ InCall # {} /\ wf.status \notin WfTerminal \cup {"none"})
            => wf'.status = "CANCELLING"
       /\ \A a \in Agents :
            (WorkerResponse(a, 200) /\ worker[a].task_meta.task_id \in fenced) =>
                /\ tasks'[worker[a].task_meta.task_id].status \in TaskCancelled
                /\ wf'.completed_tasks = wf.completed_tasks
                /\ heap' = heap
                /\ wf'.status \in WfCancel
                /\ InCall = {worker[a].task_meta.task_id} => wf'.status = "CANCELLED"]_vars

\* C17: a second cancel_workflow on a run that the first one left CANCELLING or
\* CANCELLED leaves it so, and the two calls have sent exactly one
\* WORKFLOW_CANCELLATION_INITIATED event between them.
C17_CancelIdempotent ==
    [][(CancelWorkflow /\ cancels = 1 /\ wf.status \in WfCancel) =>
            /\ initiated' = 1
            /\ wf'.status \in WfCancel]_vars

\* C18: force_complete_cancellation on a CANCELLING workflow returns true, sets
\* it to CANCELLED and marks every RUNNING task CANCELLED; on any other status
\* it returns false and changes nothing.
C18_ForceComplete ==
    [][ForceComplete =>
            IF wf.status = "CANCELLING"
            THEN /\ lastCancel'.ret = TRUE
                 /\ wf'.status = "CANCELLED"
                 /\ \A id \in TaskIds :
                        tasks[id].status = "running" => tasks'[id].status \in TaskCancelled
            ELSE /\ lastCancel'.ret = FALSE
                 /\ wf' = wf
                 /\ tasks' = tasks]_vars

\* C19: for a workflow that was started at most once, completed_tasks +
\* failed_tasks never exceeds total_tasks, and the workflow is COMPLETED
\* exactly when completed_tasks equals total_tasks.
C19_CountersAndCompleted ==
    (wf.status # "none" /\ starts <= 1) =>
        /\ wf.completed_tasks + wf.failed_tasks <= wf.total_tasks
        /\ (wf.status = "completed") <=> (wf.completed_tasks = wf.total_tasks)

\* C20: every task of a workflow in a terminal status is COMPLETED, FAILED or
\* CANCELLED.
C20_TerminalAccounting ==
    wf.status \in WfTerminal =>
        \A id \in TaskIds :
            IsIn(id, defn.ids) =>
                tasks[id].status \in {"completed", "failed"} \cup TaskCancelled

----------------------------------------------------------------------------
(* Properties of the worker pool *)

\* worker i is inside an agent call on a session that has not been closed
InAgentCall(i) == wtask[i].pc = "call" /\ wtask[i].sess \notin pool.closed

----------------------------------------------------------------------------
(* Properties of the coordinator: start, validation, fallback storage *)

\* C22: start_workflow on a submitted workflow sets it RUNNING, puts every task
\* whose in_degree is 0 in the scheduler queue with status QUEUED and enqueues
\* no task whose in_degree is above 0; it returns true only when it has done so.
C22_StartEnqueuesRoots ==
    [][(StartWorkflow /\ starts = 0 /\ cancels = 0) =>
            /\ wf'.status = "running"
            /\ \A id \in TaskIds :
                  /\ (tasks[id].status # "none" /\ tasks[id].in_degree = 0) =>
                        /\ tasks'[id].status = "queued"
                        /\ \E k \in 1..Len(heap') : heap'[k].task_meta.task_id = id
                  /\ (tasks[id].status # "none" /\ tasks[id].in_degree > 0) =>
                        /\ tasks'[id] = tasks[id]
                        /\ \A k \in 1..Len(heap') : heap'[k].task_meta.task_id # id]_vars

\* the tasks a task of the definition depends on
DepsOf(d, x) ==
    IF IsIn(x, d.ids)
    THEN {d.task[x].depends_on[k] : k \in 1..Len(d.task[x].depends_on)} ELSE {}

RECURSIVE ReachFrom(_, _, _)
ReachFrom(d, S, n) ==
    IF n = 0 THEN S ELSE ReachFrom(d, S \cup UNION {DepsOf(d, x) : x \in S}, n - 1)

\* some task of the definition depends on itself, directly or not
Cyclic(d) ==
    \E i \in 1..Len(d.ids) : d.ids[i] \in ReachFrom(d, DepsOf(d, d.ids[i]), Len(d.ids))

\* some task names an agent that has no pool or an action its agent does not offer
UnknownPair(d) ==
    \E i \in 1..Len(d.ids) :
        d.task[d.ids[i]].agent \notin Agents \/ d.task[d.ids[i]].action \notin Actions

\* C23: a definition whose dependency graph has a cycle, or that names an agent
\* and action pair that is not known, is rejected: no workflow record and no
\* task record is materialized for it.
C23_InvalidDefinitionRejected ==
    (Cyclic(subm.d) \/ UnknownPair(subm.d)) =>
        /\ wf = NoWf
        /\ \A id \in TaskIds : tasks[id] = NoDoc

\* C24: with the in-memory fallback in use, a workflow that has been initialized
\* and started behaves as with the store: it has left PENDING (it is RUNNING, or
\* has reached COMPLETED or FAILED), and no task whose in_degree is 0 is still
\* PENDING: it has been enqueued.
C24_FallbackBehavesAsStore ==
    (~use_db /\ starts >= 1 /\ cancels = 0) =>
        /\ wf.status \in {"running", "completed", "failed"}
        /\ \A id \in TaskIds :
              (tasks[id].status # "none" /\ tasks[id].in_degree = 0) =>
                  tasks[id].status # "pending"

----------------------------------------------------------------------------
(* Properties of the worker's events *)

Is2xx(resp) == resp >= 200 /\ resp < 300

\* C25: when the agent call of a started task ends, the worker emits exactly
\* one outcome event for the task: TASK_SUCCESS and no TASK_FAILED when the
\* agent answered with a 2xx status, TASK_FAILED and no TASK_SUCCESS on any
\* other status, a timeout or a connection failure.
C25_OneOutcomePerStart ==
    [][\A a \in Agents, resp \in Responses :
            WorkerResponse(a, resp) =>
                LET id == worker[a].task_meta.task_id
                IN IF Is2xx(resp)
                   THEN /\ events'[id].success = events[id].success + 1
                        /\ events'[id].failed = events[id].failed
                   ELSE /\ events'[id].failed = events[id].failed + 1
                        /\ events'[id].success = events[id].success]_vars

----------------------------------------------------------------------------
(* Properties of the SLA monitor *)

\* the task has been QUEUED or RUNNING for longer than the SLA at time t
OverSla(id, t) ==
    /\ mtasks[id].status \in {"queued", "running"}
    /\ t - mtasks[id].queued_at > TaskSla

\* C26: a scan of the monitor emits an SLA-violation alert for every task that
\* has been QUEUED or RUNNING for longer than task_sla_s, and for no task that
\* has not been QUEUED or RUNNING that long.
C26_SlaScanFlagsStale ==
    [][SlaScan => \A id \in TaskIds : (id \in lastScan') <=> OverSla(id, now)]_vars

----------------------------------------------------------------------------
(* Properties of concurrent completions *)

\* no completion handler is between its find and its last update
HandlersDone == \A a \in Agents : worker[a].pc # "handling"

\* the task has two distinct predecessors
IsJoin(id) ==
    /\ IsIn(id, defn.ids)
    /\ Len(defn.task[id].depends_on) = 2
    /\ defn.task[id].depends_on[1] # defn.task[id].depends_on[2]

\* C27: when the two predecessors of a task complete concurrently, its
\* in_degree is decremented once for each of them and it is enqueued exactly
\* once, when in_degree reaches 0, however the two handlers interleave.
C27_ConcurrentCompletions ==
    \A id \in TaskIds :
        IsJoin(id) =>
            /\ Cardinality(InHeap(id)) + started[id] <= 1
            /\ (/\ HandlersDone
                /\ \A k \in 1..2 : tasks[defn.task[id].depends_on[k]].status = "completed")
               => /\ tasks[id].in_degree = 0
                  /\ tasks[id].status # "pending"

----------------------------------------------------------------------------
(* Properties of the records *)

\* the predecessors of a task: the tasks named in its depends_on
Predecessors(id) == {defn.task[id].depends_on[k] : k \in 1..Len(defn.task[id].depends_on)}

\* the task has a record
Materialized(id) == IsIn(id, defn.ids) /\ tasks[id] # NoDoc

\* C28: in every reachable state the in_degree of a task is the number of its
\* predecessors whose status is not completed; at init it is that count for
\* every depends_on list a definition may carry.
C28_InDegreeCountsOpenPredecessors ==
    \A id \in TaskIds :
        Materialized(id) =>
            tasks[id].in_degree =
                Cardinality({p \in Predecessors(id) : tasks[p].status # "completed"})

\* C29: a task is in the scheduler's priority queue if and only if its
\* recorded status is queued (across enqueue, worker dequeue, failed enqueue
\* and cancellation).
C29_InQueueIffQueued ==
    \A id \in TaskIds : (InHeap(id) # {}) <=> tasks[id].status = "queued"

\* C30: a task has an entry in the retry delay queue if and only if its
\* recorded status is retry.
C30_RetryEntryIffRetry ==
    \A id \in TaskIds : (retry_q[id] # NoDue) <=> tasks[id].status = "retry"

----------------------------------------------------------------------------
(* Properties of the task state machine *)

\* the transitions of section 4.4
TaskTransitions ==
    {<<"pending", "queued">>, <<"queued", "running">>, <<"running", "completed">>,
     <<"running", "retry">>, <<"retry", "queued">>, <<"running", "failed">>}
    \cup {<<st, "cancelled">> : st \in {"pending", "queued", "retry", "running"}}

\* C31: the recorded status of a task changes only along pending -> queued ->
\* running, running -> completed, running -> retry -> queued, running ->
\* failed, and pending, queued, retry or running -> cancelled; completed,
\* failed and cancelled are never left.
C31_TaskTransitions ==
    [][\A id \in TaskIds :
          mtasks'[id].status # mtasks[id].status =>
              <<mtasks[id].status, mtasks'[id].status>> \in TaskTransitions]_vars

----------------------------------------------------------------------------
(* Properties of event handling *)

\* C32: handling the same TASK_SUCCESS event a second time changes neither
\* completed_tasks, nor the in_degree of any task, nor the set of enqueued
\* tasks.
C32_SuccessIdempotent ==
    [][\A id \in TaskIds :
          Redeliver(id) =>
              /\ wf'.completed_tasks = wf.completed_tasks
              /\ \A s \in TaskIds : tasks'[s].in_degree = tasks[s].in_degree
              /\ heap' = heap]_vars

----------------------------------------------------------------------------
(* Properties of the workflow record *)

\* C33: once the status of a workflow is completed, failed or cancelled, no
\* later operation (a late task completion, start_workflow, cancel_workflow
\* in either storage mode, force_complete_cancellation) changes it.
C33_TerminalStatusKept ==
    [][wf.status \in WfTerminal => wf'.status = wf.status]_vars

\* C34: cancel_workflow returns true whenever it has moved the workflow to
\* CANCELLING or CANCELLED, and whenever it returns false the workflow record,
\* the task records and the cancellation set are as before the call.
C34_CancelReturnValue ==
    [][CancelWorkflow =>
          /\ (wf'.status # wf.status /\ wf'.status \in {"CANCELLING", "CANCELLED"})
                => lastCancel'.ret
          /\ ~lastCancel'.ret
                => (wf' = wf /\ tasks' = tasks /\ cancelled_runs' = cancelled_runs)]_vars

----------------------------------------------------------------------------
(* Properties of a refused retry *)

\* C35: whenever schedule returns false, whether the retries are exhausted or
\* the delay-queue store refuses the insert, the retry count and last_error
\* of the task are as before the call and the delay queue has no new entry.
C35_RefusedScheduleChangesNothing ==
    [][\A id \in RetryTasks, e \in Errors :
          (ScheduleCall(id, e) /\ ~lastSched'.ret) =>
              /\ held'[id].retries = held[id].retries
              /\ held'[id].last_error = held[id].last_error
              /\ retry_q' = retry_q]_vars

----------------------------------------------------------------------------
(* Properties of the filtered dequeue *)

\* the entries of a heap, by the identity of the ScoredTask objects
EntriesOf(h) == {h[k].eid : k \in 1..Len(h)}

\* C36: a filtered dequeue removes from the queue exactly the one entry it
\* returns, or nothing when it returns empty: every other entry is still in
\* the queue afterwards.
C36_FilteredDequeueFrame ==
    [][\A f \in Agents :
          DequeueCall(f) =>
              LET d == dequeue(heap, f)
              IN EntriesOf(heap') = EntriesOf(heap) \ {d.task.eid}]_vars

----------------------------------------------------------------------------
(* Properties of run identifiers *)

\* C37: any two init_workflow calls, however close together in time, return
\* different run_ids, and the workflow record of one run is not overwritten
\* by another run's.
C37_RunIdsDistinct ==
    \A i, j \in 1..Len(run_ids) :
        /\ (i # j) => run_ids[i] # run_ids[j]
        /\ in_memory_workflows[run_ids[i]].call = i

----------------------------------------------------------------------------
(* Properties of the dashboard's concurrency cap *)

\* the runs recorded as RUNNING
ActuallyRunning == {w \in WorkflowIds : druns[w] = "running"}

\* C38: for any interleaving of concurrent create_run, complete_run and
\* fail_run requests, the number of workflows actually running never exceeds
\* max_concurrent_workflows.
C38_ConcurrencyCap == Cardinality(ActuallyRunning) <= max_concurrent_workflows

----------------------------------------------------------------------------
(* Properties of the concurrency guard *)

\* C39: a caller blocked in wait_for_slot returns true once another holder
\* has called release and a slot is free before the timeout; it returns false
\* only when no slot became free within the timeout.
C39_WaiterGetsFreedSlot ==
    \A p \in Callers : gcall[p].pc = "false" => ~gcall[p].freed

----------------------------------------------------------------------------
(* Properties of the translation queue *)

\* C40: once cleanup_expired has marked a translation token TIMEOUT, the
\* token's status never changes again: the translation worker does not later
\* move it to PROCESSING, DONE, ERROR or back to QUEUED.
C40_TimeoutKept ==
    [][\A t \in Tokens :
         in_memory_tokens[t].status = "timeout" => in_memory_tokens'[t].status = "timeout"]_vars

====
